---- MODULE Spec2Model ----
(***************************************************************************)
(* Minerva evolutionary RAG core: the gene pool (NeuralGenePool), the      *)
(* genes it stores (KnowledgeGene) and the generational controller         *)
(* (EvolutionaryOptimizer), modelled from src/minerva/core/genome.py and   *)
(* src/minerva/core/evolution.py.                                          *)
(*                                                                         *)
(* Numbers.  strength, activation, similarity and the configured rates are *)
(* Python floats; here they are fixed-point integers in units of 1/Scale   *)
(* (1.0 is 1000, the 0.3 threshold is 300).  Vector components are in      *)
(* units of 1/PScale, so a dot product of two vectors is in units of       *)
(* 1/(PScale*PScale) and is brought to 1/Scale by Dot.  A product with 1.1 *)
(* or 0.95 rounds down to the next 1/Scale.                                *)
(*                                                                         *)
(* Dictionaries.  A Python dict whose iteration order matters (the gene    *)
(* map) is a sequence of values in insertion order, keyed by the id field. *)
(* Other dicts (connections, metadata, config) are functions whose DOMAIN  *)
(* is the key set.                                                         *)
(***************************************************************************)
EXTENDS Integers, Sequences, FiniteSets, TLC

\* ---------------------------------------------------------------- bounds
EmbeddingDim == 2      \* NeuralGenePool.embedding_dim of the modelled pool
MaxPeriod == 2         \* longest period of a modelled random stream
MaxIterArg == 2        \* largest max_iterations argument of optimize_memory
MaxGeneration == 1     \* run_generation / optimize_memory start below this
MaxIngest == 2         \* add_gene calls before generational maintenance
MaxHeld == 3           \* genes a caller of evolve and _crossover holds
MaxEmbeddingDim == 3   \* largest embedding_dim of a modelled compressor
MaxCandidates == 3     \* longest candidate list of a similarity search
MaxCalls == 1          \* calls a caller makes on one compressor
MaxWrites == 2         \* later writes of the caller to a produced gene

\* ------------------------------------------------------ program constants
Scale == 1000
PScale == 10
ActivationThreshold == 300
WeakStrength == 100
ReinforceActivation == 500
StrengthCap == 1000
DefaultMutationRate == 100
DefaultCrossoverRate == 300
DefaultDepth == 3
DefaultTopK == 5
EvolveMaskRate == 100
MutationRateCap == 500
StagnationIterations == 10
BasisScale == 5        \* a basis entry is a multiple of 1/BasisScale
SearchTopK == 5        \* similarity_search: default top_k
FailedGeneSize == 1000
DefaultMaxIterations == 100
TestMaxIterations == 20
TestPoolSize == 8

\* ------------------------------------------------------------- utilities
Min(a, b) == IF a < b THEN a ELSE b
Max(a, b) == IF a > b THEN a ELSE b

\* x * 1.1 and x * 0.95 on fixed-point values
Times11(x) == (x * 11) \div 10
Times095(x) == (x * 95) \div 100

EmptyDict == [k \in {} |-> 0]

\* dict.get(key, default)
Get(d, k, default) == IF k \in DOMAIN d THEN d[k] ELSE default

\* a local name for a value: v is computed once and Op is applied to it
With(v, Op(_)) == CHOOSE out \in {Op(x) : x \in {v}} : TRUE

\* the key set of the gene map
Keys(gs) == {gs[i].id : i \in DOMAIN gs}

\* position of key id in the gene map, 0 when absent
IndexOf(gs, id) ==
  IF id \in Keys(gs) THEN CHOOSE i \in DOMAIN gs : gs[i].id = id ELSE 0

\* self.genes[id]
Gene(gs, id) == gs[IndexOf(gs, id)]

\* self.genes[gene.id] = gene : replace in place, or append a new key
DictSet(gs, g) ==
  IF g.id \in Keys(gs)
  THEN [gs EXCEPT ![IndexOf(gs, g.id)] = g]
  ELSE Append(gs, g)

\* del self.genes[id]
DictDel(gs, id) ==
  LET i == IndexOf(gs, id)
  IN  [k \in 1..(Len(gs) - 1) |-> IF k < i THEN gs[k] ELSE gs[k + 1]]

\* np.dot of two equal-length vectors, in units of 1/Scale
RECURSIVE DotUpTo(_, _, _)
DotUpTo(p, q, n) == IF n = 0 THEN 0 ELSE p[n] * q[n] + DotUpTo(p, q, n - 1)

Dot(p, q) == DotUpTo(p, q, Len(p)) * (Scale \div (PScale * PScale))

\* ------------------------------------------------------------ the inputs
Axis(i, n) == [k \in 1..n |-> IF k = i THEN PScale ELSE 0]
Diag(n) == [k \in 1..n |-> IF k = 1 THEN 8 ELSE IF k = 2 THEN 6 ELSE 0]
Faint(n) == [k \in 1..n |-> IF k = 1 THEN 3 ELSE IF k = 2 THEN 4 ELSE 0]

Queries == {"q1", "q2", "q3"}

\* _generate_random_queries(): the fixed probe queries of a generation
\* run without queries
ProbeQueries ==
  << "artificial intelligence", "machine learning", "deep learning",
     "natural language processing", "computer vision", "data science",
     "neural networks", "quantum computing", "robotics", "ethics in AI" >>

\* an entry of the query list the embedder cannot encode (not a text):
\* self.embedder.encode([query]) raises on it
BadQuery == "<not a text>"

EncodeRaises(query) == query = BadQuery

\* self.embedder.encode([query])[0] : the external embedder, a fixed map
\* from text to a vector of length embedding_dim
Embed(query) ==
  CASE query \in {"q1", "artificial intelligence", "deep learning",
                  "computer vision", "quantum computing"}
         -> Axis(1, EmbeddingDim)
    [] query \in {"q2", "machine learning", "data science", "robotics"}
         -> Axis(2, EmbeddingDim)
    [] OTHER -> Diag(EmbeddingDim)

\* KnowledgeGene(id, semantic_pattern, connections, strength, activation,
\* metadata): the dataclass; activation defaults to 0.0
KnowledgeGene(id, pattern, connections, strength, metadata) ==
  [id |-> id, semantic_pattern |-> pattern, connections |-> connections,
   strength |-> strength, activation |-> 0, metadata |-> metadata]

Text(t) == [k \in {"text"} |-> t]

\* the genes a caller offers to add_gene
GeneInputs ==
  { KnowledgeGene("g1", Axis(1, EmbeddingDim), EmptyDict, 1000, Text("t1")),
    KnowledgeGene("g1", Axis(1, EmbeddingDim), [k \in {"g2"} |-> 500], 50,
                  Text("t1w")),
    KnowledgeGene("g2", Diag(EmbeddingDim),
                  [k \in {"g1", "g3"} |-> IF k = "g1" THEN 300 ELSE 700],
                  950, Text("t2")),
    KnowledgeGene("g2", Faint(EmbeddingDim), [k \in {"g2"} |-> 1000],
                  100, EmptyDict),
    KnowledgeGene("g3", Axis(1, EmbeddingDim - 1), [k \in {"g1"} |-> 400],
                  1000, Text("short")),
    KnowledgeGene("g1", Axis(1, EmbeddingDim + 1), [k \in {"g2"} |-> 400],
                  1000, Text("long")) }

\* the configurations a pool is constructed with
Configs ==
  { EmptyDict,
    [k \in {"evolution"} |->
       [j \in {"mutation_rate", "depth"} |->
          IF j = "mutation_rate" THEN 480 ELSE 1]],
    [k \in {"evolution", "retrieval"} |->
       IF k = "evolution"
       THEN [j \in {"mutation_rate", "crossover_rate", "depth"} |->
               CASE j = "mutation_rate" -> 100
                 [] j = "crossover_rate" -> 300
                 [] OTHER -> 2]
       ELSE [j \in {"top_k"} |-> 3]],
    [k \in {"evolution", "retrieval"} |->
       IF k = "evolution"
       THEN [j \in {"mutation_rate", "crossover_rate", "depth"} |->
               CASE j = "mutation_rate" -> 1000
                 [] j = "crossover_rate" -> 1000
                 [] OTHER -> 1]
       ELSE [j \in {"top_k"} |-> 0 - 1]] }

\* ----------------------------------------------------------------- state
VARIABLES
  genes,        \* NeuralGenePool.genes: the gene map, in insertion order
  nodes,        \* NeuralGenePool.graph: its node set
  edges,        \* NeuralGenePool.graph: its edges [src, dst, weight]
  config,       \* NeuralGenePool.config
  generation,   \* EvolutionaryOptimizer.generation
  last,         \* the last call: its name, arguments, result and error
  pre,          \* the pool and optimizer state when the last call began
  memory,       \* the HolographicMemory object: its sizes and its basis
  threads       \* the passes running on the pool without a lock

vars ==
  <<genes, nodes, edges, config, generation, last, pre, memory, threads>>

Snapshot ==
  [genes |-> genes, nodes |-> nodes, edges |-> edges, config |-> config,
   generation |-> generation]

NoCall == [op |-> "init"]

\* a single worker drives the pool: no concurrent passes
NoThreads == <<>>

\* no compressor was constructed
NoMemory == [compression_size |-> 0, embedding_dim |-> 0, basis |-> <<>>]

\* an optimize_memory call is inside its while loop: the single worker
\* of the pool is not free for another call
Busy == last.op = "optimize_memory" /\ last.pc = "while"

\* NeuralGenePool.__init__ and EvolutionaryOptimizer.__init__
Init ==
  /\ memory = NoMemory
  /\ threads = NoThreads
  /\ genes = <<>>
  /\ nodes = {}
  /\ edges = {}
  /\ config \in Configs
  /\ generation = 0
  /\ last = NoCall
  /\ pre = [genes |-> <<>>, nodes |-> {}, edges |-> {}, config |-> config,
            generation |-> 0]

Pool(gs, ns, es) == [genes |-> gs, nodes |-> ns, edges |-> es]

\* ------------------------------------------------- NeuralGenePool.add_gene
\* nx.DiGraph.add_edge(u, v, weight=w): creates missing endpoints and
\* overwrites the weight of an existing edge u -> v
GraphAddEdge(pool, u, v, w) ==
  [pool EXCEPT
     !.nodes = @ \cup {u, v},
     !.edges = {e \in @ : ~(e.src = u /\ e.dst = v)}
                 \cup {[src |-> u, dst |-> v, weight |-> w]}]

\* the loop over gene.connections.items() without the membership test:
\* an edge for every entry
RECURSIVE AddConnectionsUnconditional(_, _, _)
AddConnectionsUnconditional(pool, gene, todo) ==
  IF todo = {} THEN pool
  ELSE LET other_id == CHOOSE k \in todo : TRUE
       IN  AddConnectionsUnconditional(
             GraphAddEdge(pool, gene.id, other_id,
                          gene.connections[other_id]),
             gene, todo \ {other_id})

\* the loop over gene.connections.items(): an edge for every target that
\* is a key of the gene map at that moment
RECURSIVE AddConnections(_, _, _)
AddConnections(pool, gene, todo) ==
  IF todo = {} THEN pool
  ELSE LET other_id == CHOOSE k \in todo : TRUE
           next == IF other_id \in Keys(pool.genes)
                   THEN GraphAddEdge(pool, gene.id, other_id,
                                     gene.connections[other_id])
                   ELSE pool
       IN  AddConnections(next, gene, todo \ {other_id})

\* add_gene with the dimension check after the insertion: the error is
\* raised, but the gene is already stored
add_gene_late_check(pool, gene) ==
  LET stored == [pool EXCEPT !.genes = DictSet(@, gene),
                             !.nodes = @ \cup {gene.id}]
      linked == AddConnections(stored, gene, DOMAIN gene.connections)
  IN  [pool |-> linked,
       raised |-> IF Len(gene.semantic_pattern) # EmbeddingDim
                  THEN "ValueError" ELSE "none"]

\* add_gene without the dimension check
add_gene_unchecked(pool, gene) ==
  LET stored == [pool EXCEPT !.genes = DictSet(@, gene),
                             !.nodes = @ \cup {gene.id}]
  IN  [pool |-> AddConnections(stored, gene, DOMAIN gene.connections),
       raised |-> "none"]

\* add_gene(gene): the pool after the call and the error it raised
add_gene(pool, gene) ==
  IF Len(gene.semantic_pattern) # EmbeddingDim
  THEN [pool |-> pool, raised |-> "ValueError"]
  ELSE LET stored == [pool EXCEPT !.genes = DictSet(@, gene),
                                  !.nodes = @ \cup {gene.id}]
       IN  [pool |-> AddConnections(stored, gene, DOMAIN gene.connections),
            raised |-> "none"]

AddGene ==
  /\ ~Busy
  /\ UNCHANGED <<memory, threads>>
  /\ \E gene \in GeneInputs :
       LET r == add_gene(Pool(genes, nodes, edges), gene)
       IN  /\ genes' = r.pool.genes
           /\ nodes' = r.pool.nodes
           /\ edges' = r.pool.edges
           /\ last' = [op |-> "add_gene", gene |-> gene, raised |-> r.raised]
  /\ pre' = Snapshot
  /\ UNCHANGED <<config, generation>>

\* ------------------------------------------- NeuralGenePool.activate_genes
\* sorted(..., key=activation, reverse=True): stable, so genes of equal
\* activation keep the order of the gene map
RECURSIVE InsertDesc(_, _)
InsertDesc(sorted, g) ==
  IF sorted = <<>> THEN <<g>>
  ELSE IF Head(sorted).activation >= g.activation
       THEN <<Head(sorted)>> \o InsertDesc(Tail(sorted), g)
       ELSE <<g>> \o sorted

\* the activated genes returned in gene-map order, without the sort
SortedDescSkipped(list) == list

RECURSIVE SortedDesc(_)
SortedDesc(list) ==
  IF list = <<>> THEN <<>>
  ELSE InsertDesc(SortedDesc(SubSeq(list, 1, Len(list) - 1)), list[Len(list)])

\* the loop body writing activation only for a gene above the threshold,
\* so that a gene below it keeps the activation of an earlier query
ActivatedKeepsStale(gene, query_embedding) ==
  IF Len(gene.semantic_pattern) # Len(query_embedding)
  THEN gene
  ELSE IF Dot(gene.semantic_pattern, query_embedding) > ActivationThreshold
  THEN [gene EXCEPT
          !.activation = Dot(gene.semantic_pattern, query_embedding)
                           - ActivationThreshold]
  ELSE gene

\* the loop body keeping the highest activation seen so far instead of
\* overwriting it
ActivatedKeepsHighest(gene, query_embedding) ==
  IF Len(gene.semantic_pattern) # Len(query_embedding)
  THEN gene
  ELSE [gene EXCEPT
          !.activation =
             Max(@, Dot(gene.semantic_pattern, query_embedding)
                      - ActivationThreshold)]

\* the body of the loop for one gene: skipped on a dimension mismatch,
\* otherwise activation = max(0, similarity - 0.3)
Activated(gene, query_embedding) ==
  IF Len(gene.semantic_pattern) # Len(query_embedding)
  THEN gene
  ELSE [gene EXCEPT
          !.activation =
             Max(0, Dot(gene.semantic_pattern, query_embedding)
                      - ActivationThreshold)]

\* whether the loop appends the gene to activated_genes
IsActivated(gene, query_embedding) ==
  /\ Len(gene.semantic_pattern) = Len(query_embedding)
  /\ Activated(gene, query_embedding).activation > 0

\* activate_genes(query): the gene map after the call, the list returned
\* and the error raised (the embedder's, before any gene is touched)
activate_genes(gs, query) ==
  LET query_embedding == Embed(query)
      after == [i \in DOMAIN gs |-> Activated(gs[i], query_embedding)]
      activated_genes ==
        SelectSeq(after, LAMBDA g : IsActivated(g, query_embedding))
  IN  IF EncodeRaises(query)
      THEN [genes |-> gs, ret |-> <<>>, raised |-> "Exception"]
      ELSE [genes |-> after, ret |-> SortedDesc(activated_genes),
            raised |-> "none"]

ActivateGenes ==
  /\ ~Busy
  /\ UNCHANGED <<memory, threads>>
  /\ \E query \in Queries :
       LET r == activate_genes(genes, query)
       IN  /\ genes' = r.genes
           /\ last' = [op |-> "activate_genes", query |-> query,
                       ret |-> r.ret, raised |-> r.raised]
  /\ pre' = Snapshot
  /\ UNCHANGED <<nodes, edges, config, generation>>

\* --------------------------------------- NeuralGenePool.natural_selection
\* remove_node taking the node and leaving the edges at it
GraphRemoveNodeOnly(pool, n) == [pool EXCEPT !.nodes = @ \ {n}]

\* nx.DiGraph.remove_node(n): the node and every edge at it
GraphRemoveNode(pool, n) ==
  [pool EXCEPT !.nodes = @ \ {n},
               !.edges = {e \in @ : e.src # n /\ e.dst # n}]

\* to_remove with strength <= 0.1 in place of strength < 0.1
ToRemoveInclusive(gs) ==
  LET weak == SelectSeq(gs, LAMBDA g : g.strength <= WeakStrength)
  IN  [i \in DOMAIN weak |-> weak[i].id]

\* to_remove: the keys of the weak genes, in gene-map order
ToRemove(gs) ==
  LET weak == SelectSeq(gs, LAMBDA g : g.strength < WeakStrength)
  IN  [i \in DOMAIN weak |-> weak[i].id]

\* the removal loop; remove_node raises NetworkXError for a missing node,
\* after the gene was deleted from the map
RECURSIVE RemoveAll(_, _)
RemoveAll(pool, to_remove) ==
  IF to_remove = <<>> THEN [pool |-> pool, raised |-> "none"]
  ELSE LET gene_id == Head(to_remove)
           deleted == [pool EXCEPT !.genes = DictDel(@, gene_id)]
       IN  IF gene_id \notin pool.nodes
           THEN [pool |-> deleted, raised |-> "NetworkXError"]
           ELSE RemoveAll(GraphRemoveNode(deleted, gene_id), Tail(to_remove))

\* the reinforcement with a decay (x0.95) of every gene it does not raise
StrengthenDecaying(gene) ==
  IF gene.activation > ReinforceActivation
  THEN [gene EXCEPT !.strength = Min(StrengthCap, Times11(gene.strength))]
  ELSE [gene EXCEPT !.strength = Times095(gene.strength)]

\* the reinforcement without the cap at 1.0
StrengthenUncapped(gene) ==
  IF gene.activation > ReinforceActivation
  THEN [gene EXCEPT !.strength = Times11(gene.strength)]
  ELSE gene

\* the reinforcement with activation >= 0.5 in place of activation > 0.5
StrengthenInclusive(gene) ==
  IF gene.activation >= ReinforceActivation
  THEN [gene EXCEPT !.strength = Min(StrengthCap, Times11(gene.strength))]
  ELSE gene

\* the reinforcement of one surviving gene
Strengthen(gene) ==
  IF gene.activation > ReinforceActivation
  THEN [gene EXCEPT !.strength = Min(StrengthCap, Times11(gene.strength))]
  ELSE gene

\* natural_selection(): the pool after the call and the error it raised
natural_selection(pool) ==
  LET removed == RemoveAll(pool, ToRemove(pool.genes))
  IN  IF removed.raised # "none" THEN removed
      ELSE [pool |-> [removed.pool EXCEPT
                        !.genes = [i \in DOMAIN @ |-> Strengthen(@[i])]],
            raised |-> "none"]

NaturalSelection ==
  /\ ~Busy
  /\ UNCHANGED <<memory, threads>>
  /\ LET r == natural_selection(Pool(genes, nodes, edges))
     IN  /\ genes' = r.pool.genes
         /\ nodes' = r.pool.nodes
         /\ edges' = r.pool.edges
         /\ last' = [op |-> "natural_selection", raised |-> r.raised]
  /\ pre' = Snapshot
  /\ UNCHANGED <<config, generation>>

\* ---------------------------------------------------- the random source
\* np.random: a stream of draws in [0, 1), in units of 1/Scale, given by
\* its period; pos counts the draws consumed so far
RandomValues == {0, 200, 999}

RECURSIVE SeqsUpTo(_, _)
SeqsUpTo(S, n) ==
  IF n = 0 THEN {<<>>}
  ELSE LET shorter == SeqsUpTo(S, n - 1)
       IN  shorter \cup {Append(q, x) : q \in {t \in shorter : Len(t) = n - 1},
                                        x \in S}

RandomStreams == SeqsUpTo(RandomValues, MaxPeriod) \ {<<>>}

Draw(stream, pos) == stream[(pos % Len(stream)) + 1]

\* --------------------------------------------------- KnowledgeGene.evolve
RECURSIVE SumSq(_, _)
SumSq(v, n) == IF n = 0 THEN 0 ELSE v[n] * v[n] + SumSq(v, n - 1)

\* np.linalg.norm, rounded down to a whole component unit
RECURSIVE SumAbs(_, _)
SumAbs(v, n) ==
  IF n = 0 THEN 0
  ELSE (IF v[n] < 0 THEN 0 - v[n] ELSE v[n]) + SumAbs(v, n - 1)

Norm(v) ==
  LET ss == SumSq(v, Len(v))
  IN  CHOOSE r \in 0..SumAbs(v, Len(v)) :
        r * r <= ss /\ (r + 1) * (r + 1) > ss

\* v / np.linalg.norm(v); the modelled inputs never blend to a zero vector
\* (numpy would divide by zero), which is left as it is here
Normalized(v) ==
  LET norm == Norm(v)
  IN  IF norm = 0 THEN v ELSE [k \in DOMAIN v |-> (v[k] * PScale) \div norm]

\* gene.evolve(mutation_rate): mask is the draw that decides whether the
\* noise mask selects a coordinate; the noise is one standard deviation
\* (0.1) on the first coordinate
evolve(gene, mutation_rate, mask) ==
  LET noisy == IF mask < mutation_rate
               THEN [gene.semantic_pattern EXCEPT ![1] = @ + 1]
               ELSE gene.semantic_pattern
  IN  [id |-> gene.id \o "_mut",
       semantic_pattern |-> Normalized(noisy),
       connections |-> gene.connections,
       strength |-> Times095(gene.strength),
       activation |-> 0,
       metadata |-> gene.metadata]

\* ------------------------------------------- NeuralGenePool._crossover
\* the connections merged as {**c1, **c2}: on a common key gene2's weight
\* replaces gene1's
MergedConnectionsOverwritten(c1, c2) ==
  [k \in DOMAIN c1 \cup DOMAIN c2 |-> IF k \in DOMAIN c2 THEN c2[k] ELSE c1[k]]

\* the connections loop: gene1's entries, then for each key of gene2 the
\* larger of gene2's weight and what is there (0 when absent)
MergedConnections(c1, c2) ==
  [k \in DOMAIN c1 \cup DOMAIN c2 |->
     IF k \in DOMAIN c2 THEN Max(c2[k], Get(c1, k, 0)) ELSE c1[k]]

\* {**gene1.metadata, **gene2.metadata}
MergedMetadata(m1, m2) ==
  [k \in DOMAIN m1 \cup DOMAIN m2 |-> IF k \in DOMAIN m2 THEN m2[k] ELSE m1[k]]

\* _crossover(gene1, gene2) for parents of equal dimension; alpha is the
\* blending draw
Crossover(gene1, gene2, alpha) ==
  LET blend == [k \in DOMAIN gene1.semantic_pattern |->
                  (alpha * gene1.semantic_pattern[k]
                     + (Scale - alpha) * gene2.semantic_pattern[k]) \div Scale]
  IN  [id |-> gene1.id \o "_" \o gene2.id \o "_child",
       semantic_pattern |-> Normalized(blend),
       connections |-> MergedConnections(gene1.connections, gene2.connections),
       strength |-> (gene1.strength + gene2.strength) \div 2,
       activation |-> 0,
       metadata |-> MergedMetadata(gene1.metadata, gene2.metadata)]

\* the dimension check that makes _crossover raise ValueError
CrossoverRaises(gene1, gene2) ==
  Len(gene1.semantic_pattern) # Len(gene2.semantic_pattern)

\* ------------------------------------- NeuralGenePool.evolve_activation
MutationRate(cfg) ==
  Get(Get(cfg, "evolution", EmptyDict), "mutation_rate", DefaultMutationRate)

CrossoverRate(cfg) ==
  Get(Get(cfg, "evolution", EmptyDict), "crossover_rate", DefaultCrossoverRate)

Depth(cfg) == Get(Get(cfg, "evolution", EmptyDict), "depth", DefaultDepth)

TopK(cfg) == Get(Get(cfg, "retrieval", EmptyDict), "top_k", DefaultTopK)

\* new_generation[:top_k]: Python's slice, a negative top_k counting from
\* the end of the list
Slice(list, top_k) ==
  IF top_k >= 0 THEN SubSeq(list, 1, Min(top_k, Len(list)))
  ELSE SubSeq(list, 1, Max(0, Len(list) + top_k))

\* the mutation step handing on the gene itself when it is not mutated
MutationStepPassing(cfg, gene, new_generation, stream, pos) ==
  IF Draw(stream, pos) < MutationRate(cfg)
  THEN [out |-> Append(new_generation,
                       evolve(gene, EvolveMaskRate, Draw(stream, pos + 1))),
        pos |-> pos + 2]
  ELSE [out |-> Append(new_generation, gene), pos |-> pos + 1]

\* the mutation step of the walk for one gene: one draw decides, and
\* gene.evolve(0.1) consumes the mask draw
MutationStep(cfg, gene, new_generation, stream, pos) ==
  IF Draw(stream, pos) < MutationRate(cfg)
  THEN [out |-> Append(new_generation,
                       evolve(gene, EvolveMaskRate, Draw(stream, pos + 1))),
        pos |-> pos + 2]
  ELSE [out |-> new_generation, pos |-> pos + 1]

\* the crossover step of the walk at position i (0-based): nothing is
\* drawn at the last position; _crossover consumes the alpha draw unless
\* it raises
CrossoverStep(cfg, list, i, new_generation, stream, pos) ==
  IF ~(i < Len(list) - 1)
  THEN [out |-> new_generation, pos |-> pos, raised |-> "none"]
  ELSE IF ~(Draw(stream, pos) < CrossoverRate(cfg))
  THEN [out |-> new_generation, pos |-> pos + 1, raised |-> "none"]
  ELSE IF CrossoverRaises(list[i + 1], list[i + 2])
  THEN [out |-> new_generation, pos |-> pos + 1, raised |-> "ValueError"]
  ELSE [out |-> Append(new_generation,
                       Crossover(list[i + 1], list[i + 2],
                                 Draw(stream, pos + 1))),
        pos |-> pos + 2, raised |-> "none"]

\* the walk over enumerate(genes) from position i (0-based), with the
\* list accumulated so far; a raising _crossover ends the call
RECURSIVE EvolveWalk(_, _, _, _, _, _)
EvolveWalk(cfg, list, i, new_generation, stream, pos) ==
  IF i >= Len(list)
  THEN [ret |-> new_generation, raised |-> "none", pos |-> pos]
  ELSE With(MutationStep(cfg, list[i + 1], new_generation, stream, pos),
         LAMBDA m :
           With(CrossoverStep(cfg, list, i, m.out, stream, m.pos),
             LAMBDA c :
               IF c.raised # "none"
               THEN [ret |-> <<>>, raised |-> c.raised, pos |-> c.pos]
               ELSE EvolveWalk(cfg, list, i + 1, c.out, stream, c.pos)))

\* evolve_activation(genes): the list returned, the error raised and the
\* draws consumed
evolve_activation(cfg, list, stream, pos) ==
  With(EvolveWalk(cfg, list, 0, <<>>, stream, pos),
    LAMBDA walked :
      IF walked.raised # "none" THEN walked
      ELSE [walked EXCEPT !.ret = Slice(@, TopK(cfg))])

\* evolve_activation on the list the preceding activate_genes returned
\* (the stored genes themselves)
EvolveActivation ==
  /\ ~Busy
  /\ UNCHANGED <<memory, threads>>
  /\ last.op = "activate_genes"
  /\ \E stream \in RandomStreams :
       LET r == evolve_activation(config, last.ret, stream, 0)
       IN  last' = [op |-> "evolve_activation", list |-> last.ret,
                    stream |-> stream, ret |-> r.ret, raised |-> r.raised]
  /\ pre' = Snapshot
  /\ UNCHANGED <<genes, nodes, edges, config, generation>>


\* ------------------------------- EvolutionaryOptimizer.run_generation
\* for _ in range(depth): if activated: activated = evolve_activation(...)
RECURSIVE EvolveRounds(_, _, _, _, _)
EvolveRounds(cfg, activated, rounds, stream, pos) ==
  IF rounds <= 0 \/ activated = <<>>
  THEN [ret |-> activated, raised |-> "none", pos |-> pos]
  ELSE With(evolve_activation(cfg, activated, stream, pos),
         LAMBDA r :
           IF r.raised # "none" THEN r
           ELSE EvolveRounds(cfg, r.ret, rounds - 1, stream, r.pos))

\* the try block for one query: activate_genes, then the evolve rounds on
\* the list it returned; an error of either is the block's error
TryQuery(cfg, a, stream, pos) ==
  IF a.raised # "none"
  THEN [ret |-> <<>>, raised |-> a.raised, pos |-> pos]
  ELSE EvolveRounds(cfg, a.ret, Depth(cfg), stream, pos)

\* the tally of the loop over the queries: errors counts the queries whose
\* processing raised, evolved the genes the evolved lists held
Tally(seen, e) ==
  [errors |-> IF e.raised # "none" THEN seen.errors + 1 ELSE seen.errors,
   evolved |-> IF e.raised # "none" THEN seen.evolved
               ELSE seen.evolved + Len(e.ret)]

\* the loop over the queries with every evolved list stored in the pool
RECURSIVE ProcessQueriesStoring(_, _, _, _, _, _)
ProcessQueriesStoring(cfg, gs, queries, stream, pos, seen) ==
  IF queries = <<>> THEN [genes |-> gs, pos |-> pos, seen |-> seen]
  ELSE With(activate_genes(gs, Head(queries)),
         LAMBDA a :
           With(TryQuery(cfg, a, stream, pos),
             LAMBDA e :
               ProcessQueriesStoring(
                 cfg,
                 IF e.raised # "none" \/ e.ret = <<>> \/ a.ret = <<>>
                 THEN a.genes
                 ELSE DictSet(a.genes, e.ret[1]),
                 Tail(queries), stream, e.pos, Tally(seen, e))))

\* the loop over the queries without the try block: the first exception
\* ends the loop
RECURSIVE ProcessQueriesAborting(_, _, _, _, _, _)
ProcessQueriesAborting(cfg, gs, queries, stream, pos, seen) ==
  IF queries = <<>> THEN [genes |-> gs, pos |-> pos, seen |-> seen]
  ELSE With(activate_genes(gs, Head(queries)),
         LAMBDA a :
           With(TryQuery(cfg, a, stream, pos),
             LAMBDA e :
               IF e.raised # "none"
               THEN [genes |-> a.genes, pos |-> e.pos,
                     seen |-> Tally(seen, e)]
               ELSE ProcessQueriesAborting(cfg, a.genes, Tail(queries),
                                           stream, e.pos, Tally(seen, e))))

\* the loop over the queries; an exception while one query is processed
\* is caught and the loop goes on
RECURSIVE ProcessQueries(_, _, _, _, _, _)
ProcessQueries(cfg, gs, queries, stream, pos, seen) ==
  IF queries = <<>> THEN [genes |-> gs, pos |-> pos, seen |-> seen]
  ELSE With(activate_genes(gs, Head(queries)),
         LAMBDA a :
           With(TryQuery(cfg, a, stream, pos),
             LAMBDA e :
               ProcessQueries(cfg, a.genes, Tail(queries), stream, e.pos,
                              Tally(seen, e))))

\* run_generation(queries): the pool after the call, the error raised,
\* the number of queries whose processing failed and the number of genes
\* the evolved lists held; the generation counter is incremented by the
\* caller of this operator
run_generation(cfg, pool, arg, stream) ==
  LET queries == IF arg.none THEN ProbeQueries ELSE arg.list
      processed == ProcessQueries(cfg, pool.genes, queries, stream, 0,
                                  [errors |-> 0, evolved |-> 0])
      selected == natural_selection([pool EXCEPT !.genes = processed.genes])
  IN  [pool |-> selected.pool, raised |-> selected.raised,
       errors |-> processed.seen.errors, evolved |-> processed.seen.evolved]

\* the arguments tried: None (the probe queries) or an explicit list
QueryLists ==
  { <<>>, <<"q1">>, <<"q1", "q2">>, <<"q2", "q3">>,
    <<BadQuery, "q3">>, <<"q3", BadQuery, "q2">> }

QueryArgs ==
  {[none |-> TRUE, list |-> <<>>]}
    \cup {[none |-> FALSE, list |-> l] : l \in QueryLists}

GenerationStreams == {<<200>>, <<999>>}

RunGeneration ==
  /\ ~Busy
  /\ UNCHANGED <<memory, threads>>
  /\ generation < MaxGeneration
  /\ \E arg \in QueryArgs, stream \in GenerationStreams :
       LET r == run_generation(config, Pool(genes, nodes, edges), arg, stream)
       IN  /\ genes' = r.pool.genes
           /\ nodes' = r.pool.nodes
           /\ edges' = r.pool.edges
           /\ last' = [op |-> "run_generation", queries |-> arg,
                       raised |-> r.raised, errors |-> r.errors,
                       evolved |-> r.evolved]
  /\ generation' = generation + 1
  /\ pre' = Snapshot
  /\ UNCHANGED config

\* ------------------------------------------ KnowledgeGene.to_compressed
\* len(json.dumps(strength)): "1.0", "0.1", "0.95", "0.055"
JsonFloatLen(x) == IF x % 100 = 0 THEN 3 ELSE IF x % 10 = 0 THEN 4 ELSE 5

\* len(gene.to_compressed()): the bytes of the serialized id, pattern,
\* connections, strength and metadata (activation is not serialized)
CompressedLen(gene) ==
  10 + 4 * Len(gene.semantic_pattern)
     + 8 * Cardinality(DOMAIN gene.connections)
     + JsonFloatLen(gene.strength)
     + 8 * Cardinality(DOMAIN gene.metadata)

\* json.dumps raises on a value it cannot serialize
Serializable(gene) ==
  \A k \in DOMAIN gene.metadata : gene.metadata[k] # "<object>"

\* --------------------- EvolutionaryOptimizer._estimate_memory_usage
\* the sum with nothing added for a gene whose to_compressed() fails
RECURSIVE EstimateUpToSkipping(_, _)
EstimateUpToSkipping(gs, n) ==
  IF n = 0 THEN 0
  ELSE EstimateUpToSkipping(gs, n - 1)
         + (IF Serializable(gs[n]) THEN CompressedLen(gs[n]) ELSE 0)

\* the loop of _estimate_memory_usage over the first n genes: the
\* compressed length, or the approximate size when to_compressed() raises
RECURSIVE EstimateUpTo(_, _)
EstimateUpTo(gs, n) ==
  IF n = 0 THEN 0
  ELSE EstimateUpTo(gs, n - 1)
         + (IF Serializable(gs[n]) THEN CompressedLen(gs[n])
            ELSE FailedGeneSize)

estimate_memory_usage(gs) == EstimateUpTo(gs, Len(gs))

\* ------------------------------ EvolutionaryOptimizer.optimize_memory
DictPut(d, k, v) == [x \in DOMAIN d \cup {k} |-> IF x = k THEN v ELSE d[x]]

\* the raised mutation_rate without the cap at 0.5
RaisedPressureUncapped(cfg) ==
  LET evolution_config == Get(cfg, "evolution", EmptyDict)
      old_rate == Get(evolution_config, "mutation_rate", DefaultMutationRate)
  IN  DictPut(cfg, "evolution",
              DictPut(evolution_config, "mutation_rate", Times11(old_rate)))

\* config.setdefault('evolution', {}) and the raised mutation_rate
RaisedPressure(cfg) ==
  LET evolution_config == Get(cfg, "evolution", EmptyDict)
      old_rate == Get(evolution_config, "mutation_rate", DefaultMutationRate)
  IN  DictPut(cfg, "evolution",
              DictPut(evolution_config, "mutation_rate",
                      Min(MutationRateCap, Times11(old_rate))))

TargetSizes == {0, 40, 5000}

MaxIterations == 0..MaxIterArg

LongRuns == {TestMaxIterations, DefaultMaxIterations}

\* the while condition with current_size >= target_size
LoopConditionInclusive(current_size, target_size, iterations, max_iterations) ==
  current_size >= target_size /\ iterations < max_iterations

\* the while condition without the bound on the iterations
LoopConditionUnbounded(current_size, target_size, iterations, max_iterations) ==
  current_size > target_size

\* the while condition of optimize_memory
LoopCondition(current_size, target_size, iterations, max_iterations) ==
  current_size > target_size /\ iterations < max_iterations

\* the early-stopping test with a strict comparison: a footprint that
\* equals its re-measurement does not stop the loop
EarlyStopStrict(iterations, current_size, gs) ==
  iterations > StagnationIterations
    /\ current_size > estimate_memory_usage(gs)

\* the early-stopping test at the end of the loop body
EarlyStop(iterations, current_size, gs) ==
  iterations > StagnationIterations
    /\ current_size >= estimate_memory_usage(gs)

\* the call with max_iterations from limits: the first estimate,
\* iterations = 0; sizes keeps every estimate the call assigned to
\* current_size
OptimizeCall(limits) ==
  /\ ~Busy
  /\ UNCHANGED <<memory, threads>>
  /\ generation < MaxGeneration
  /\ \E target_size \in TargetSizes, max_iterations \in limits :
       last' = [op |-> "optimize_memory", pc |-> "while",
                target_size |-> target_size,
                max_iterations |-> max_iterations,
                current_size |-> estimate_memory_usage(genes),
                sizes |-> <<estimate_memory_usage(genes)>>,
                iterations |-> 0, raised |-> "none"]
  /\ pre' = Snapshot
  /\ UNCHANGED <<genes, nodes, edges, config, generation>>

\* optimize_memory(target_size, max_iterations) with a small max_iterations
OptimizeStart == OptimizeCall(MaxIterations)

\* optimize_memory(target_size, max_iterations=20) as in the unit test,
\* and optimize_memory(target_size) with the default of 100
OptimizeStartLong == OptimizeCall(LongRuns)

\* one pass through the loop body, up to the break or the next test of
\* the while condition
OptimizeIterate ==
  /\ Busy
  /\ UNCHANGED <<memory, threads>>
  /\ LoopCondition(last.current_size, last.target_size, last.iterations,
                   last.max_iterations)
  /\ \E stream \in GenerationStreams :
       LET cfg == RaisedPressure(config)
           r == run_generation(cfg, Pool(genes, nodes, edges),
                               [none |-> TRUE, list |-> <<>>], stream)
           size == estimate_memory_usage(r.pool.genes)
           done == r.raised # "none"
                     \/ EarlyStop(last.iterations + 1, size, r.pool.genes)
       IN  /\ config' = cfg
           /\ genes' = r.pool.genes
           /\ nodes' = r.pool.nodes
           /\ edges' = r.pool.edges
           /\ last' = [last EXCEPT
                         !.iterations = @ + 1,
                         !.current_size =
                            IF r.raised # "none" THEN @ ELSE size,
                         !.sizes =
                            IF r.raised # "none" THEN @ ELSE Append(@, size),
                         !.raised = r.raised,
                         !.pc = IF done THEN "returned" ELSE "while"]
  /\ generation' = generation + 1
  /\ UNCHANGED pre

\* the while condition is false: the call returns
OptimizeReturn ==
  /\ Busy
  /\ UNCHANGED <<memory, threads>>
  /\ ~LoopCondition(last.current_size, last.target_size, last.iterations,
                    last.max_iterations)
  /\ last' = [last EXCEPT !.pc = "returned"]
  /\ UNCHANGED <<genes, nodes, edges, config, generation, pre, threads>>


\* the pool operations of a caller that ingests, queries and prunes
Next ==
  \/ AddGene
  \/ ActivateGenes
  \/ NaturalSelection
  \/ EvolveActivation

Spec == Init /\ [][Next]_vars

\* ------------------------------------------- generational maintenance
\* the pool after a caller made the add_gene calls of adds, in order
RECURSIVE Ingested(_, _)
Ingested(pool, adds) ==
  IF adds = <<>> THEN pool
  ELSE Ingested(add_gene(pool, Head(adds)).pool, Tail(adds))

\* the pools of a caller that made at most MaxIngest add_gene calls
IngestedPools ==
  {Ingested(Pool(<<>>, {}, {}), adds) : adds \in SeqsUpTo(GeneInputs, MaxIngest)}

InitGen ==
  /\ memory = NoMemory
  /\ threads = NoThreads
  /\ \E pool \in IngestedPools :
       /\ genes = pool.genes
       /\ nodes = pool.nodes
       /\ edges = pool.edges
  /\ config \in Configs
  /\ generation = 0
  /\ last = NoCall
  /\ pre = Snapshot

\* a pool under generational maintenance after its ingestion
NextGen ==
  \/ ActivateGenes
  \/ EvolveActivation
  \/ NaturalSelection
  \/ RunGeneration
  \/ OptimizeStart
  \/ OptimizeIterate
  \/ OptimizeReturn

SpecGen == InitGen /\ [][NextGen]_vars

\* ------------------------------------------------------ MinervaCLI.query
\* the context built from every gene of the list, without the top_k slice
genes_to_context_unsliced(cfg, list) ==
  LET with_text == SelectSeq(list, LAMBDA g : "text" \in DOMAIN g.metadata)
  IN  [i \in DOMAIN with_text |-> with_text[i].metadata["text"]]

\* _genes_to_context(genes): the metadata text of the genes of
\* genes[:top_k] that have one, in order (the parts joined into the
\* context string)
genes_to_context(cfg, list) ==
  LET with_text == SelectSeq(Slice(list, TopK(cfg)),
                             LAMBDA g : "text" \in DOMAIN g.metadata)
  IN  [i \in DOMAIN with_text |-> with_text[i].metadata["text"]]

\* query(question): the gene map after the activation, the gene list the
\* evolution rounds leave and the context handed to _generate_response
query_flow(cfg, gs, question, stream) ==
  With(activate_genes(gs, question),
    LAMBDA a :
      With(EvolveRounds(cfg, a.ret, Depth(cfg), stream, 0),
        LAMBDA e :
          [genes |-> a.genes, activated |-> a.ret, final |-> e.ret,
           raised |-> e.raised,
           context |-> IF e.raised # "none" THEN <<>>
                       ELSE genes_to_context(cfg, e.ret)]))

\* the configurations of a query session: the pool's, and some that skip
\* the evolution rounds (depth 0)
QueryConfigs ==
  Configs \cup
    { [k \in {"evolution"} |-> [j \in {"depth"} |-> 0]],
      [k \in {"evolution", "retrieval"} |->
         IF k = "evolution" THEN [j \in {"depth"} |-> 0]
         ELSE [j \in {"top_k"} |-> 1]],
      [k \in {"evolution", "retrieval"} |->
         IF k = "evolution" THEN [j \in {"depth"} |-> 0]
         ELSE [j \in {"top_k"} |-> 0 - 1]],
      [k \in {"evolution", "retrieval"} |->
         IF k = "evolution"
         THEN [j \in {"mutation_rate", "crossover_rate", "depth"} |->
                 CASE j = "mutation_rate" -> 1000
                   [] j = "crossover_rate" -> 1000
                   [] OTHER -> 2]
         ELSE [j \in {"top_k"} |-> 1]] }

\* MinervaCLI.__init__ followed by the ingestion of the session
InitCli ==
  /\ memory = NoMemory
  /\ threads = NoThreads
  /\ \E pool \in IngestedPools :
       /\ genes = pool.genes
       /\ nodes = pool.nodes
       /\ edges = pool.edges
  /\ config \in QueryConfigs
  /\ generation = 0
  /\ last = NoCall
  /\ pre = Snapshot

Query ==
  /\ ~Busy
  /\ UNCHANGED <<memory, threads>>
  /\ \E question \in Queries, stream \in GenerationStreams :
       LET r == query_flow(config, genes, question, stream)
       IN  /\ genes' = r.genes
           /\ last' = [op |-> "query", question |-> question,
                       activated |-> r.activated, final |-> r.final,
                       context |-> r.context, raised |-> r.raised]
  /\ pre' = Snapshot
  /\ UNCHANGED <<nodes, edges, config, generation>>

\* a query session over an ingested pool
NextCli == Query

SpecCli == InitCli /\ [][NextCli]_vars

\* -------------------------------------------------- memory optimization
\* create_test_gene(text): a gene of full strength with the embedding of
\* its text, no connections and the text as metadata
create_test_gene(i) ==
  KnowledgeGene(<<"gene_0", "gene_1", "gene_2", "gene_3", "gene_4",
                  "gene_5", "gene_6", "gene_7">>[i],
                IF i % 3 = 0 THEN Diag(EmbeddingDim)
                ELSE Axis(i % 3, EmbeddingDim),
                EmptyDict, Scale, Text("test gene"))

\* the pool of test_optimize_memory: TestPoolSize test genes
TestGenes == [i \in 1..TestPoolSize |-> create_test_gene(i)]

\* a pool with a weak gene and a gene that the probe queries reinforce
\* up to the cap in the eleventh generation
SlowGenes ==
  << KnowledgeGene("weak", Axis(2, EmbeddingDim), EmptyDict, 50, Text("w")),
     KnowledgeGene("slow", Diag(EmbeddingDim), EmptyDict, 360, Text("s")) >>

\* a pool of one reinforced gene that is half-way to the cap
HalfGenes ==
  << KnowledgeGene("half", Diag(EmbeddingDim), EmptyDict, 630, Text("h")) >>

\* a pool with a gene whose metadata json.dumps cannot serialize
OpaqueGenes ==
  << KnowledgeGene("opaque", Axis(1, EmbeddingDim), EmptyDict, Scale,
                   [k \in {"text", "blob"} |->
                      IF k = "text" THEN "o" ELSE "<object>"]),
     KnowledgeGene("plain", Diag(EmbeddingDim), EmptyDict, 630, Text("p")) >>

OptimizedPools ==
  {Ingested(Pool(<<>>, {}, {}), adds) :
     adds \in {<<>>, TestGenes, SlowGenes, HalfGenes, OpaqueGenes}}

\* the configuration of test_optimize_memory, the empty one and one
\* close to the cap of the mutation rate
OptimizedConfigs ==
  { EmptyDict,
    [k \in {"evolution"} |-> [j \in {"mutation_rate"} |-> 300]],
    [k \in {"evolution"} |->
       [j \in {"mutation_rate", "depth"} |->
          IF j = "mutation_rate" THEN 480 ELSE 1]] }

InitOpt ==
  /\ memory = NoMemory
  /\ threads = NoThreads
  /\ \E pool \in OptimizedPools :
       /\ genes = pool.genes
       /\ nodes = pool.nodes
       /\ edges = pool.edges
  /\ config \in OptimizedConfigs
  /\ generation = 0
  /\ last = NoCall
  /\ pre = Snapshot

\* an ingested pool on which the caller runs optimize_memory
NextOpt ==
  \/ OptimizeStart
  \/ OptimizeStartLong
  \/ OptimizeIterate
  \/ OptimizeReturn

SpecOpt == InitOpt /\ [][NextOpt]_vars

\* ------------------------------------- genes in the hands of a caller
\* The caller holds gene objects (held) and the mutable objects that
\* metadata values refer to (heap): a metadata value that is a key of heap
\* is a reference to that object, any other value is an atom.
NestedObjects == [a \in {"&tags"} |-> [k \in {"topic"} |-> "ai"]]

\* the genes a caller builds: connections with weights in [0, 1]
ObjectGenes ==
  { KnowledgeGene("a", Axis(1, EmbeddingDim),
                  [k \in {"x", "y"} |-> IF k = "x" THEN 0 ELSE 700],
                  1000,
                  [k \in {"text", "tags"} |->
                     IF k = "text" THEN "ta" ELSE "&tags"]),
    KnowledgeGene("b", Diag(EmbeddingDim),
                  [k \in {"y", "z"} |-> IF k = "y" THEN 400 ELSE 0],
                  950, Text("tb")),
    KnowledgeGene("c", Axis(2, EmbeddingDim),
                  [k \in {"x", "y"} |-> IF k = "x" THEN 300 ELSE 900],
                  55, [k \in {"text", "src"} |->
                         IF k = "text" THEN "tc" ELSE "file"]),
    KnowledgeGene("d", Axis(1, EmbeddingDim + 1), EmptyDict, 500,
                  EmptyDict) }

\* what a reader of the gene sees: its fields, with every metadata value
\* that is a reference followed to the object it refers to
Deep(heap, gene) ==
  [gene EXCEPT
     !.metadata = [k \in DOMAIN @ |->
                     IF @[k] \in DOMAIN heap THEN heap[@[k]] ELSE <<@[k]>>]]

\* the caller holds two genes it built
InitGene ==
  /\ memory = NoMemory
  /\ threads = NoThreads
  /\ genes = <<>>
  /\ nodes = {}
  /\ edges = {}
  /\ config = EmptyDict
  /\ generation = 0
  /\ pre = Snapshot
  /\ \E gene1 \in ObjectGenes, gene2 \in ObjectGenes :
       last = [op |-> "built", held |-> <<gene1, gene2>>,
               heap |-> NestedObjects]

\* child = held[i].evolve(0.1)
EvolveCall ==
  /\ last.op \in {"built", "evolve", "_crossover"}
  /\ UNCHANGED <<memory, threads>>
  /\ Len(last.held) < MaxHeld
  /\ \E i \in DOMAIN last.held, mask \in RandomValues :
       last' = [op |-> "evolve", parents |-> <<i>>,
                before |-> <<Deep(last.heap, last.held[i])>>,
                child |-> Len(last.held) + 1,
                held |-> Append(last.held,
                                evolve(last.held[i], EvolveMaskRate, mask)),
                heap |-> last.heap, raised |-> "none", writes |-> 0]
  /\ UNCHANGED <<genes, nodes, edges, config, generation, pre, threads>>

\* child = pool._crossover(held[i], held[j])
CrossoverCall ==
  /\ last.op \in {"built", "evolve", "_crossover"}
  /\ UNCHANGED <<memory, threads>>
  /\ Len(last.held) < MaxHeld
  /\ \E i \in DOMAIN last.held, j \in DOMAIN last.held,
        alpha \in RandomValues :
       LET raises == CrossoverRaises(last.held[i], last.held[j])
       IN  last' = [op |-> "_crossover", parents |-> <<i, j>>,
                    before |-> <<Deep(last.heap, last.held[i]),
                                 Deep(last.heap, last.held[j])>>,
                    child |-> IF raises THEN 0 ELSE Len(last.held) + 1,
                    held |-> IF raises THEN last.held
                             ELSE Append(last.held,
                                         Crossover(last.held[i],
                                                   last.held[j], alpha)),
                    heap |-> last.heap,
                    raised |-> IF raises THEN "ValueError" ELSE "none",
                    writes |-> 0]
  /\ UNCHANGED <<genes, nodes, edges, config, generation, pre, threads>>

\* a later change of the caller to the produced gene:
\* child.connections[key] = w, child.metadata[key] = v, or
\* child.metadata[key]["topic"] = v on a nested object
ChildWrite ==
  /\ last.op \in {"evolve", "_crossover"}
  /\ UNCHANGED <<memory, threads>>
  /\ last.child # 0
  /\ last.writes < MaxWrites
  /\ LET child == last.held[last.child]
         written == [last EXCEPT !.writes = @ + 1]
     IN  \/ \E key \in {"x", "new"}, w \in {0, 900} :
              last' = [written EXCEPT
                         !.held[last.child].connections = DictPut(@, key, w)]
         \/ \E key \in {"text", "tags"} :
              last' = [written EXCEPT
                         !.held[last.child].metadata =
                            DictPut(@, key, "changed")]
         \/ \E key \in DOMAIN child.metadata :
              /\ child.metadata[key] \in DOMAIN last.heap
              /\ last' = [written EXCEPT
                            !.heap[child.metadata[key]] =
                               DictPut(@, "topic", "changed")]
  /\ UNCHANGED <<genes, nodes, edges, config, generation, pre, threads>>

NextGene ==
  \/ EvolveCall
  \/ CrossoverCall
  \/ ChildWrite

SpecGene == InitGene /\ [][NextGene]_vars

\* ------------------------------------------------- HolographicMemory
\* _init_basis(): the orthonormal rows QR leaves, compression_size rows of
\* length embedding_dim, in units of 1/BasisScale. The random matrix
\* decides which: rows along the first axes, rows along the last axes,
\* or the first two rows turned in their plane (3/5, 4/5), (-4/5, 3/5)
AxisBasis(compression_size, embedding_dim) ==
  [r \in 1..compression_size |->
     [c \in 1..embedding_dim |-> IF c = r THEN BasisScale ELSE 0]]

TailBasis(compression_size, embedding_dim) ==
  [r \in 1..compression_size |->
     [c \in 1..embedding_dim |->
        IF c = embedding_dim + 1 - r THEN BasisScale ELSE 0]]

TurnedBasis(compression_size, embedding_dim) ==
  [r \in 1..compression_size |->
     [c \in 1..embedding_dim |->
        CASE r = 1 /\ c = 1 -> 3
          [] r = 1 /\ c = 2 -> 4
          [] r = 2 /\ c = 1 -> 0 - 4
          [] r = 2 /\ c = 2 -> 3
          [] r > 2 /\ c = r -> BasisScale
          [] OTHER -> 0]]

Bases(compression_size, embedding_dim) ==
  { AxisBasis(compression_size, embedding_dim),
    TailBasis(compression_size, embedding_dim),
    TurnedBasis(compression_size, embedding_dim) }

\* HolographicMemory(compression_size, embedding_dim) with the basis drawn
HolographicMemory(compression_size, embedding_dim, basis) ==
  [compression_size |-> compression_size, embedding_dim |-> embedding_dim,
   basis |-> basis]

\* matrix @ vector, row by row over the vector's length
MatVec(matrix, vector) ==
  [r \in 1..Len(matrix) |-> DotUpTo(matrix[r], vector, Len(vector))]

\* matrix.T for a matrix of rows of length n
Transposed(matrix, n) ==
  [c \in 1..n |-> [r \in 1..Len(matrix) |-> matrix[r][c]]]

\* the length test of compress and decompress passing every input that is
\* not longer than expected
DimensionMismatchLonger(length, expected) == length > expected

\* len(vector) != self.embedding_dim, len(compressed) != compression_size
DimensionMismatch(length, expected) == length # expected

\* compress(vector): the projection on the basis, normalized unless its
\* norm is 0; memory is the object after the call
compress(mem, vector) ==
  IF DimensionMismatch(Len(vector), mem.embedding_dim)
  THEN [ret |-> <<>>, raised |-> "ValueError", memory |-> mem]
  ELSE [ret |-> Normalized(MatVec(mem.basis, vector)), raised |-> "none",
        memory |-> mem]

\* decompress(compressed): self.basis.T @ compressed
decompress(mem, compressed) ==
  IF DimensionMismatch(Len(compressed), mem.compression_size)
  THEN [ret |-> <<>>, raised |-> "ValueError", memory |-> mem]
  ELSE [ret |-> [c \in 1..mem.embedding_dim |->
                   MatVec(Transposed(mem.basis, mem.embedding_dim),
                          compressed)[c] \div BasisScale],
        raised |-> "none", memory |-> mem]

\* valid_vectors: the positions (counted from 0) of the candidates of the
\* expected length, in order
RECURSIVE ValidVectors(_, _, _)
ValidVectors(mem, vectors, n) ==
  IF n = 0 THEN <<>>
  ELSE IF Len(vectors[n]) # mem.embedding_dim
  THEN ValidVectors(mem, vectors, n - 1)
  ELSE Append(ValidVectors(mem, vectors, n - 1), n - 1)

\* similarities: np.dot(compressed_query, compressed_vec) per valid vector
Similarities(mem, compressed_query, vectors, valid_vectors) ==
  [j \in 1..Len(valid_vectors) |->
     Dot(compressed_query,
         compress(mem, vectors[valid_vectors[j] + 1]).ret)]

\* np.argsort(similarities): a permutation of the positions (counted from
\* 1 here) along which the scores do not decrease; equal scores come in
\* an order the sort does not fix
ArgSorts(similarities) ==
  {p \in [1..Len(similarities) -> 1..Len(similarities)] :
     /\ \A i, j \in 1..Len(similarities) : i # j => p[i] # p[j]
     /\ \A i \in 1..(Len(similarities) - 1) :
          similarities[p[i]] <= similarities[p[i + 1]]}

\* sorted[-top_k:] : Python's slice; -0 is 0, so top_k = 0 takes the
\* whole list, and a negative top_k drops the first -top_k entries
LastSlice(list, top_k) ==
  IF top_k > 0 THEN SubSeq(list, Max(0, Len(list) - top_k) + 1, Len(list))
  ELSE SubSeq(list, Min(Len(list), 0 - top_k) + 1, Len(list))

\* list[::-1]
Reversed(list) == [i \in 1..Len(list) |-> list[Len(list) + 1 - i]]

\* the positions among the valid vectors returned as they are
OriginalIndicesUnmapped(valid_vectors, indices) ==
  [j \in 1..Len(indices) |-> indices[j] - 1]

\* original_indices = [valid_vectors[i] for i in indices]
OriginalIndices(valid_vectors, indices) ==
  [j \in 1..Len(indices) |-> valid_vectors[indices[j]]]

\* similarity_search(query, vectors, top_k) when np.argsort orders the
\* scores as argsort does
similarity_search(mem, query, vectors, top_k, argsort) ==
  IF Len(query) # mem.embedding_dim
  THEN [indices |-> <<>>, scores |-> <<>>, raised |-> "ValueError",
        memory |-> mem]
  ELSE LET valid_vectors == ValidVectors(mem, vectors, Len(vectors))
           similarities ==
             Similarities(mem, compress(mem, query).ret, vectors,
                          valid_vectors)
           indices == Reversed(LastSlice(argsort, top_k))
       IN  IF similarities = <<>>
           THEN [indices |-> <<>>, scores |-> <<>>, raised |-> "none",
                 memory |-> mem]
           ELSE [indices |-> OriginalIndices(valid_vectors, indices),
                 scores |-> [j \in 1..Len(indices) |->
                               similarities[indices[j]]],
                 raised |-> "none", memory |-> mem]

\* the orders np.argsort can give for the scores of a search
SearchSorts(mem, query, vectors) ==
  IF Len(query) # mem.embedding_dim THEN {<<>>}
  ELSE ArgSorts(Similarities(mem, compress(mem, query).ret, vectors,
                             ValidVectors(mem, vectors, Len(vectors))))

\* batch_compress(vectors): the compressed forms of the vectors of the
\* expected length
batch_compress(mem, vectors) ==
  LET valid == SelectSeq(vectors, LAMBDA v : Len(v) = mem.embedding_dim)
  IN  [ret |-> [i \in 1..Len(valid) |-> compress(mem, valid[i]).ret],
       raised |-> "none", memory |-> mem]

\* reconstruction_accuracy(original, compressed): the cosine of original
\* and decompress(compressed), in units of 1/Scale; compressed = <<>>
\* with given = FALSE is the default None
reconstruction_accuracy(mem, original, given, compressed) ==
  LET c == IF given
           THEN [ret |-> compressed, raised |-> "none", memory |-> mem]
           ELSE compress(mem, original)
      reconstructed == decompress(mem, c.ret)
  IN  IF c.raised # "none" THEN [c EXCEPT !.ret = 0]
      ELSE IF reconstructed.raised # "none"
      THEN [reconstructed EXCEPT !.ret = 0]
      ELSE IF Norm(original) = 0 \/ Norm(reconstructed.ret) = 0
      THEN [ret |-> 0, raised |-> "none", memory |-> mem]
      ELSE IF Len(original) # Len(reconstructed.ret)
      THEN [ret |-> 0, raised |-> "ValueError", memory |-> mem]
      ELSE [ret |-> (DotUpTo(original, reconstructed.ret, Len(original))
                       * Scale)
                      \div (Norm(original) * Norm(reconstructed.ret)),
            raised |-> "none", memory |-> mem]

\* the vectors a caller passes: the zero vector, axes, a reversed axis and
\* two oblique ones, of length n
VectorsOfLength(n) ==
  { [k \in 1..n |-> 0], Axis(1, n), Axis(n, n), Diag(n), Faint(n),
    [k \in 1..n |-> IF k = 1 THEN 0 - PScale ELSE 0] }

\* the inputs of a compressor of the given sizes: right, short and long
VectorInputs(mem) ==
  VectorsOfLength(mem.embedding_dim)
    \cup {Axis(1, mem.embedding_dim - 1), Diag(mem.embedding_dim + 1)}

CompressedInputs(mem) ==
  {Axis(1, mem.compression_size), Axis(1, mem.compression_size + 1),
   Axis(1, mem.embedding_dim), [k \in 1..mem.compression_size |-> 0]}

\* the candidates of a search: four of the expected length (two of them
\* scoring the same on every basis) and one that is longer
Candidates(mem) ==
  { Axis(1, mem.embedding_dim), Diag(mem.embedding_dim),
    Faint(mem.embedding_dim), [k \in 1..mem.embedding_dim |-> 0],
    Diag(mem.embedding_dim + 1) }

TopKArgs == {0 - 1, 0, 1, 2, SearchTopK}

\* HolographicMemory.__init__
InitHolo ==
  /\ genes = <<>>
  /\ nodes = {}
  /\ edges = {}
  /\ config = EmptyDict
  /\ generation = 0
  /\ pre = [genes |-> <<>>, nodes |-> {}, edges |-> {}, config |-> config,
            generation |-> 0]
  /\ \E embedding_dim \in 2..MaxEmbeddingDim :
       \E compression_size \in 1..(embedding_dim - 1) :
         \E basis \in Bases(compression_size, embedding_dim) :
           memory = HolographicMemory(compression_size, embedding_dim, basis)
  /\ last = [op |-> "__init__", raised |-> "none", calls |-> 0]
  /\ threads = NoThreads

Compress ==
  /\ last.calls < MaxCalls
  /\ \E vector \in VectorInputs(memory) :
       LET r == compress(memory, vector)
       IN  /\ memory' = r.memory
           /\ last' = [op |-> "compress", calls |-> last.calls + 1,
                       vector |-> vector, ret |-> r.ret,
                       raised |-> r.raised]
  /\ UNCHANGED <<genes, nodes, edges, config, generation, pre, threads>>

Decompress ==
  /\ last.calls < MaxCalls
  /\ \E compressed \in CompressedInputs(memory) :
       LET r == decompress(memory, compressed)
       IN  /\ memory' = r.memory
           /\ last' = [op |-> "decompress", calls |-> last.calls + 1,
                       compressed |-> compressed,
                       ret |-> r.ret, raised |-> r.raised]
  /\ UNCHANGED <<genes, nodes, edges, config, generation, pre, threads>>

SimilaritySearch ==
  /\ last.calls < MaxCalls
  /\ \E query \in {Diag(memory.embedding_dim), Axis(1, memory.embedding_dim),
                   Axis(1, memory.embedding_dim + 1)},
        vectors \in SeqsUpTo(Candidates(memory), MaxCandidates),
        top_k \in TopKArgs :
       \E argsort \in SearchSorts(memory, query, vectors) :
         LET r == similarity_search(memory, query, vectors, top_k, argsort)
         IN  /\ memory' = r.memory
             /\ last' = [op |-> "similarity_search",
                         calls |-> last.calls + 1, query |-> query,
                         vectors |-> vectors, top_k |-> top_k,
                         indices |-> r.indices, scores |-> r.scores,
                         raised |-> r.raised]
  /\ UNCHANGED <<genes, nodes, edges, config, generation, pre, threads>>

BatchCompress ==
  /\ last.calls < MaxCalls
  /\ \E vectors \in SeqsUpTo(Candidates(memory), MaxCandidates - 1) :
       LET r == batch_compress(memory, vectors)
       IN  /\ memory' = r.memory
           /\ last' = [op |-> "batch_compress", calls |-> last.calls + 1,
                       vectors |-> vectors,
                       ret |-> r.ret, raised |-> r.raised]
  /\ UNCHANGED <<genes, nodes, edges, config, generation, pre, threads>>

ReconstructionAccuracy ==
  /\ last.calls < MaxCalls
  /\ \E original \in VectorInputs(memory), given \in BOOLEAN :
       \E compressed \in IF given THEN CompressedInputs(memory) ELSE {<<>>} :
         LET r == reconstruction_accuracy(memory, original, given, compressed)
         IN  /\ memory' = r.memory
             /\ last' = [op |-> "reconstruction_accuracy", calls |-> last.calls + 1,
                         original |-> original, given |-> given,
                         compressed |-> compressed, ret |-> r.ret,
                         raised |-> r.raised]
  /\ UNCHANGED <<genes, nodes, edges, config, generation, pre, threads>>

\* the calls of a caller that holds one compressor
NextHolo ==
  \/ Compress
  \/ Decompress
  \/ SimilaritySearch
  \/ BatchCompress
  \/ ReconstructionAccuracy

SpecHolo == InitHolo /\ [][NextHolo]_vars

\* ------------------------------------------ passes without a lock
\* Two passes run on one pool in two threads. A thread can be switched
\* between any two accesses of shared state: the write and the read of
\* gene.activation, the key reads of sorted(), each deletion, each step of
\* a dictionary iterator.
\* An activate_genes(query) pass about to start
ActivationPass(query) ==
  [op |-> "activate_genes", query |-> query, pc |-> "call", size |-> 0,
   i |-> 1, cur |-> "", activated_genes |-> <<>>, keys |-> <<>>,
   ret |-> <<>>, stored |-> <<>>, raised |-> "none"]

\* a natural_selection() pass about to start
SelectionPass ==
  [op |-> "natural_selection", pc |-> "call", to_remove |-> <<>>,
   removed |-> <<>>, size |-> 0, i |-> 1, reinforced |-> {},
   stored |-> <<>>, raised |-> "none"]

\* the gene objects a selection pass took out of the map; a list of
\* another thread may still refer to them
Detached(ths) ==
  IF \E t \in DOMAIN ths : ths[t].op = "natural_selection"
  THEN ths[CHOOSE t \in DOMAIN ths : ths[t].op = "natural_selection"].removed
  ELSE <<>>

\* gene.activation read through a reference to the object with this id
ObjectActivation(gs, ths, id) ==
  IF id \in Keys(gs) THEN Gene(gs, id).activation
  ELSE Gene(Detached(ths), id).activation

\* sorted(activated_genes, key=..., reverse=True) on the keys read:
\* stable, by insertion from the left
RECURSIVE SortedByKeys(_, _, _)
SortedByKeys(ids, keys, n) ==
  IF n = 0 THEN <<>>
  ELSE LET rest == SortedByKeys(ids, keys, n - 1)
           at == Cardinality({j \in 1..(n - 1) : keys[j] >= keys[n]})
           pos == [j \in DOMAIN rest |->
                     CHOOSE m \in 1..(n - 1) : ids[m] = rest[j]]
           before == SelectSeq(rest, LAMBDA x :
                       keys[CHOOSE m \in 1..(n - 1) : ids[m] = x] >= keys[n])
           after == SelectSeq(rest, LAMBDA x :
                       keys[CHOOSE m \in 1..(n - 1) : ids[m] = x] < keys[n])
       IN  before \o <<ids[n]>> \o after

\* one step of the activate_genes pass of thread t
ActivationStep(t) ==
  LET th == threads[t]
  IN
  /\ th.op = "activate_genes"
  /\ \/ \* for gene in self.genes.values(): the iterator is created
        /\ th.pc = "call"
        /\ threads' = [threads EXCEPT ![t].pc = "next",
                                      ![t].size = Len(genes)]
        /\ UNCHANGED genes
     \/ \* next(iterator) raises when the map changed size; otherwise the
        \* loop body up to the assignment gene.activation = max(0, ...)
        /\ th.pc = "next"
        /\ IF Len(genes) # th.size
           THEN /\ threads' = [threads EXCEPT ![t].pc = "done",
                                 ![t].raised = "RuntimeError"]
                /\ UNCHANGED genes
           ELSE IF th.i > th.size
           THEN /\ threads' =
                     [threads EXCEPT
                        ![t].pc = IF th.activated_genes = <<>>
                                  THEN "return" ELSE "key"]
                /\ UNCHANGED genes
           ELSE IF Len(genes[th.i].semantic_pattern) # Len(Embed(th.query))
           THEN /\ threads' = [threads EXCEPT ![t].i = @ + 1]
                /\ UNCHANGED genes
           ELSE /\ genes' = [genes EXCEPT
                               ![th.i] = Activated(@, Embed(th.query))]
                /\ threads' = [threads EXCEPT ![t].pc = "check",
                                              ![t].cur = genes[th.i].id]
     \/ \* if gene.activation > 0: activated_genes.append(gene)
        /\ th.pc = "check"
        /\ threads' =
             [threads EXCEPT
                ![t].pc = "next",
                ![t].i = @ + 1,
                ![t].activated_genes =
                   IF ObjectActivation(genes, threads, th.cur) > 0
                   THEN Append(@, th.cur) ELSE @]
        /\ UNCHANGED genes
     \/ \* sorted() reads the key of the next list entry
        /\ th.pc = "key"
        /\ threads' =
             [threads EXCEPT
                ![t].keys =
                   Append(@, ObjectActivation(
                               genes, threads,
                               th.activated_genes[Len(th.keys) + 1])),
                ![t].pc = IF Len(th.keys) + 1 = Len(th.activated_genes)
                          THEN "return" ELSE "key"]
        /\ UNCHANGED genes
     \/ \* the sorted list is returned; stored keeps what the genes of
        \* the list hold at this moment
        /\ th.pc = "return"
        /\ LET ret == SortedByKeys(th.activated_genes, th.keys,
                                   Len(th.activated_genes))
           IN  threads' =
                 [threads EXCEPT
                    ![t].pc = "done",
                    ![t].ret = ret,
                    ![t].stored =
                       [j \in DOMAIN ret |->
                          ObjectActivation(genes, threads, ret[j])]]
        /\ UNCHANGED genes
  /\ UNCHANGED <<nodes, edges, config, generation, last, pre, memory>>

\* one step of the natural_selection pass of thread t
SelectionStep(t) ==
  LET th == threads[t]
  IN
  /\ th.op = "natural_selection"
  /\ \/ \* to_remove = [...]
        /\ th.pc = "call"
        /\ threads' = [threads EXCEPT ![t].pc = "remove",
                                      ![t].to_remove = ToRemove(genes)]
        /\ UNCHANGED <<genes, nodes, edges>>
     \/ \* del self.genes[gene_id]; self.graph.remove_node(gene_id)
        /\ th.pc = "remove"
        /\ th.to_remove # <<>>
        /\ LET gene_id == Head(th.to_remove)
               pool == GraphRemoveNode(Pool(genes, nodes, edges), gene_id)
           IN  /\ genes' = DictDel(genes, gene_id)
               /\ nodes' = pool.nodes
               /\ edges' = pool.edges
               /\ threads' =
                    [threads EXCEPT
                       ![t].to_remove = Tail(@),
                       ![t].removed = Append(@, Gene(genes, gene_id))]
     \/ \* for gene in self.genes.values(): the iterator is created
        /\ th.pc = "remove"
        /\ th.to_remove = <<>>
        /\ threads' = [threads EXCEPT ![t].pc = "strengthen",
                                      ![t].size = Len(genes)]
        /\ UNCHANGED <<genes, nodes, edges>>
     \/ \* if gene.activation > 0.5: gene.strength = min(1.0, ...)
        /\ th.pc = "strengthen"
        /\ th.i <= th.size
        /\ genes' = [genes EXCEPT ![th.i] = Strengthen(@)]
        /\ threads' =
             [threads EXCEPT
                ![t].i = @ + 1,
                ![t].reinforced =
                   IF genes[th.i].activation > ReinforceActivation
                   THEN @ \cup {genes[th.i].id} ELSE @]
        /\ UNCHANGED <<nodes, edges>>
     \/ \* the pass ends; stored keeps the activation every gene holds
        \* at this moment
        /\ th.pc = "strengthen"
        /\ th.i > th.size
        /\ threads' =
             [threads EXCEPT
                ![t].pc = "done",
                ![t].stored = [j \in DOMAIN genes |-> genes[j].activation]]
        /\ UNCHANGED <<genes, nodes, edges>>
  /\ UNCHANGED <<config, generation, last, pre, memory>>

\* the passes started together: two activations for different queries,
\* or an activation and a selection
ThreadPairs ==
  {<<ActivationPass(qs[1]), ActivationPass(qs[2])>> :
     qs \in {pair \in Queries \X Queries : pair[1] # pair[2]}}
    \cup {<<ActivationPass(q), SelectionPass>> : q \in Queries}

\* an ingested pool, possibly after an earlier activate_genes call, on
\* which two threads start a pass each
InitRace ==
  /\ memory = NoMemory
  /\ \E pool \in IngestedPools :
       /\ genes \in {pool.genes}
                      \cup {activate_genes(pool.genes, q).genes : q \in Queries}
       /\ nodes = pool.nodes
       /\ edges = pool.edges
  /\ config = EmptyDict
  /\ generation = 0
  /\ last = NoCall
  /\ pre = Snapshot
  /\ threads \in ThreadPairs

NextRace == \E t \in {1, 2} : ActivationStep(t) \/ SelectionStep(t)

SpecRace == InitRace /\ [][NextRace]_vars

\* ============================================================ properties
\* similarity of a gene to a query: np.dot(query_embedding, pattern)
Similarity(gene, query) == Dot(gene.semantic_pattern, Embed(query))

\* the keys natural_selection (or a generation) took out of the gene map
Removed == Keys(pre.genes) \ Keys(genes)

\* the strength a pre-pass gene has after the pass: a removed gene is no
\* longer in the map, and nothing wrote to the object
PostStrength(gene) ==
  IF gene.id \in Keys(genes) THEN Gene(genes, gene.id).strength
  ELSE gene.strength

\* C1: add_gene with a gene whose pattern length differs from embedding_dim
\* raises the dimension-mismatch ValueError and leaves the gene map, the
\* graph's node set and its edge set exactly as they were before the call.
C1_MismatchedAddRejected ==
  (last.op = "add_gene" /\ Len(last.gene.semantic_pattern) # EmbeddingDim)
    => /\ last.raised = "ValueError"
       /\ genes = pre.genes
       /\ nodes = pre.nodes
       /\ edges = pre.edges

\* a mismatched gene was offered under a key the pool holds, with a
\* connection to a stored gene (the insertion would have changed the map
\* and added an edge)
C1_Witness ==
  /\ last.op = "add_gene"
  /\ Len(last.gene.semantic_pattern) # EmbeddingDim
  /\ last.raised = "ValueError"
  /\ last.gene.id \in Keys(pre.genes)
  /\ \E k \in DOMAIN last.gene.connections : k \in Keys(pre.genes)

\* C2: in every reachable state, every gene in the gene map has a pattern
\* of length exactly embedding_dim.
C2_DimensionInvariant ==
  \A i \in DOMAIN genes : Len(genes[i].semantic_pattern) = EmbeddingDim

\* a pool that was ingested, then went through a whole optimize_memory
\* call with at least one generation, and still holds genes
C2_Witness ==
  /\ last.op = "optimize_memory"
  /\ last.pc = "returned"
  /\ last.iterations >= 1
  /\ Len(genes) >= 2

\* C3: activate_genes(query) returns exactly the stored genes whose
\* similarity to the query exceeds the 0.3 threshold, each once and with
\* activation > 0, ordered by non-increasing activation.
C3_ActivatedExactlyAboveThreshold ==
  last.op = "activate_genes" =>
    LET above == {i \in DOMAIN genes :
                    Similarity(genes[i], last.query) > ActivationThreshold}
    IN  /\ Len(last.ret) = Cardinality(above)
        /\ \A i \in above : \E j \in DOMAIN last.ret : last.ret[j] = genes[i]
        /\ \A j \in DOMAIN last.ret : \E i \in above : last.ret[j] = genes[i]
        /\ \A j \in DOMAIN last.ret : last.ret[j].activation > 0
        /\ \A j, k \in DOMAIN last.ret :
             j < k => last.ret[j].activation >= last.ret[k].activation

\* two genes were returned, and the more activated one is the later one in
\* the gene map
C3_Witness ==
  /\ last.op = "activate_genes"
  /\ Len(last.ret) = 2
  /\ last.ret[1].activation > last.ret[2].activation
  /\ IndexOf(genes, last.ret[1].id) > IndexOf(genes, last.ret[2].id)

\* C4: after activate_genes(q) every stored gene has activation
\* max(0, similarity - 0.3) >= 0 whatever its activation was, and nothing
\* else changed: the key set and order, every gene's strength, pattern,
\* connections and metadata, the graph and the configuration.
C4_ActivationOverwrittenOnly ==
  last.op = "activate_genes" =>
    /\ Len(genes) = Len(pre.genes)
    /\ \A i \in DOMAIN genes :
         /\ genes[i].activation >= 0
         /\ genes[i] =
              [pre.genes[i] EXCEPT
                 !.activation =
                    Max(0, Similarity(pre.genes[i], last.query)
                             - ActivationThreshold)]
    /\ nodes = pre.nodes
    /\ edges = pre.edges
    /\ config = pre.config
    /\ generation = pre.generation

\* a gene activated by an earlier query is not activated by this one and
\* ends with activation 0
C4_Witness ==
  /\ last.op = "activate_genes"
  /\ \E i \in DOMAIN genes :
       /\ pre.genes[i].activation > 0
       /\ genes[i].activation = 0

\* C5: after natural_selection() the gene map holds exactly the pre-pass
\* genes whose strength was >= 0.1, in their order, and every removed
\* gene's node (with the edges at it) is gone from the graph.
C5_WeakGenesRemoved ==
  last.op = "natural_selection" =>
    LET strong == SelectSeq(pre.genes, LAMBDA g : g.strength >= WeakStrength)
    IN  /\ last.raised = "none"
        /\ Len(genes) = Len(strong)
        /\ \A i \in DOMAIN genes : genes[i].id = strong[i].id
        /\ \A i \in DOMAIN genes : genes[i].strength >= WeakStrength
        /\ \A id \in Removed :
             /\ id \notin nodes
             /\ \A e \in edges : e.src # id /\ e.dst # id

\* a weak gene with an edge at its node was removed, and a gene of
\* strength exactly 0.1 survived
C5_Witness ==
  /\ last.op = "natural_selection"
  /\ \E id \in Removed : \E e \in pre.edges : e.src = id \/ e.dst = id
  /\ \E i \in DOMAIN genes : genes[i].strength = WeakStrength

\* C6: after natural_selection(), every surviving gene (pre-pass strength
\* >= 0.1) with pre-pass activation > 0.5 has post-pass strength
\* min(1.0, old_strength * 1.1).
C6_SurvivorsReinforced ==
  last.op = "natural_selection" =>
    \A i \in DOMAIN pre.genes :
      (/\ pre.genes[i].activation > ReinforceActivation
       /\ pre.genes[i].strength >= WeakStrength)
        => /\ pre.genes[i].id \in Keys(genes)
           /\ PostStrength(pre.genes[i])
                = Min(StrengthCap, Times11(pre.genes[i].strength))

\* a surviving gene was reinforced and the cap at 1.0 cut the product
C6_Witness ==
  /\ last.op = "natural_selection"
  /\ \E i \in DOMAIN pre.genes :
       /\ pre.genes[i].activation > ReinforceActivation
       /\ pre.genes[i].strength >= WeakStrength
       /\ Times11(pre.genes[i].strength) > StrengthCap
       /\ PostStrength(pre.genes[i]) > pre.genes[i].strength

\* C6 as stated: after natural_selection(), every gene with pre-pass
\* activation > 0.5 has post-pass strength min(1.0, old_strength * 1.1).
C6_EveryActivatedGeneReinforced ==
  last.op = "natural_selection" =>
    \A i \in DOMAIN pre.genes :
      pre.genes[i].activation > ReinforceActivation
        => PostStrength(pre.genes[i])
             = Min(StrengthCap, Times11(pre.genes[i].strength))

\* C7: natural_selection() changes nothing but removal and reinforcement:
\* every remaining gene keeps its activation, pattern, connections (also
\* the entries that point at removed genes) and metadata, a survivor with
\* activation <= 0.5 keeps its strength, the graph loses only the removed
\* nodes and the edges at them, and the configuration is unchanged.
C7_SelectionFrame ==
  last.op = "natural_selection" =>
    /\ config = pre.config
    /\ generation = pre.generation
    /\ nodes = pre.nodes \ Removed
    /\ edges = {e \in pre.edges : e.src \notin Removed /\ e.dst \notin Removed}
    /\ \A i \in DOMAIN genes :
         /\ genes[i].id \in Keys(pre.genes)
         /\ LET before == Gene(pre.genes, genes[i].id)
            IN  /\ genes[i].activation = before.activation
                /\ genes[i].semantic_pattern = before.semantic_pattern
                /\ genes[i].connections = before.connections
                /\ genes[i].metadata = before.metadata
                /\ before.activation <= ReinforceActivation
                     => genes[i].strength = before.strength

\* a survivor with activation exactly 0.5 and strength below the cap keeps
\* a connection entry that points at a gene the pass removed
C7_Witness ==
  /\ last.op = "natural_selection"
  /\ \E i \in DOMAIN genes :
       /\ genes[i].activation = ReinforceActivation
       /\ genes[i].strength < StrengthCap
       /\ \E k \in DOMAIN genes[i].connections : k \in Removed

\* C8 as stated: for any input list and any configuration, the list
\* evolve_activation returns has no more than top_k genes (5 when the key
\* is missing) and no more than 2*n - 1 genes for an input of n >= 1 genes.
C8_AtMostTopK ==
  (last.op = "evolve_activation" /\ last.raised = "none") =>
    /\ Len(last.ret) <= TopK(config)
    /\ Len(last.list) >= 1 => Len(last.ret) <= 2 * Len(last.list) - 1

\* top_k is -1 and evolve_activation returned two genes
C8_Witness ==
  /\ last.op = "evolve_activation"
  /\ last.raised = "none"
  /\ TopK(config) < 0
  /\ Len(last.ret) = 2

\* C9: evolve_activation leaves the gene map and the graph unchanged,
\* leaves every input gene as it was and stores none of the genes it
\* returns; a run_generation call and an optimize_memory call, which
\* apply it depth times per query, never add a key, a node or an edge, so
\* the number of stored genes never grows.
C9_EvolvedGenesNotStored ==
  /\ last.op = "evolve_activation" =>
       /\ genes = pre.genes
       /\ nodes = pre.nodes
       /\ edges = pre.edges
       /\ \A i \in DOMAIN last.list :
            /\ last.list[i].id \in Keys(genes)
            /\ Gene(genes, last.list[i].id) = last.list[i]
       /\ \A j \in DOMAIN last.ret : last.ret[j].id \notin Keys(genes)
  /\ last.op \in {"run_generation", "optimize_memory"} =>
       /\ Len(genes) <= Len(pre.genes)
       /\ Keys(genes) \subseteq Keys(pre.genes)
       /\ nodes \subseteq pre.nodes
       /\ edges \subseteq pre.edges

\* a run_generation call whose evolved lists held genes, on a pool that
\* kept all its genes
C9_Witness ==
  /\ last.op = "run_generation"
  /\ last.evolved >= 2
  /\ Len(pre.genes) = 2
  /\ Len(genes) = 2

\* C10: an optimize_memory(target_size, max_iterations) call always
\* returns after at most max_iterations generations: at every moment of
\* the call it has run at most max_iterations passes through its loop, one
\* run_generation call each, and every step taken inside the loop either
\* returns or is one more pass, so the passes left can only go down to 0.
C10_BoundedByMaxIterations ==
  /\ [](last.op = "optimize_memory" =>
          /\ last.iterations <= Max(0, last.max_iterations)
          /\ generation = pre.generation + last.iterations)
  /\ [][Busy => /\ last'.op = "optimize_memory"
                /\ \/ last'.pc = "returned"
                   \/ last'.iterations = last.iterations + 1]_vars

\* the call returned because the iterations ran out, the pool still above
\* the target
C10_Witness ==
  /\ last.op = "optimize_memory"
  /\ last.pc = "returned"
  /\ last.max_iterations = MaxIterArg
  /\ last.iterations = last.max_iterations
  /\ last.current_size > last.target_size

\* the estimated footprint when the last call began
InitialEstimate == estimate_memory_usage(pre.genes)

\* an optimize_memory call that has returned without an error
Optimized ==
  last.op = "optimize_memory" /\ last.pc = "returned" /\ last.raised = "none"

\* C11 as stated: optimize_memory(target) on a pool of 8 genes with
\* target below the initial estimate (max_iterations 20 as in the unit
\* test, or the default) ends with a final estimated footprint strictly
\* less than the initial one.
C11_FootprintReduced ==
  (/\ Optimized
   /\ Len(pre.genes) = TestPoolSize
   /\ last.max_iterations \in LongRuns
   /\ last.target_size < InitialEstimate)
    => estimate_memory_usage(genes) < InitialEstimate

\* the call of the unit test returned after eleven generations with the
\* eight genes and the footprint it began with
C11_Witness ==
  /\ Optimized
  /\ Len(pre.genes) = TestPoolSize
  /\ last.target_size < InitialEstimate
  /\ last.max_iterations = TestMaxIterations
  /\ last.iterations = StagnationIterations + 1
  /\ Len(genes) = TestPoolSize
  /\ estimate_memory_usage(genes) = InitialEstimate

\* the mutation rate after n iterations that began at rate
RECURSIVE RateAfter(_, _)
RateAfter(rate, n) ==
  IF n = 0 THEN rate
  ELSE Min(MutationRateCap, Times11(RateAfter(rate, n - 1)))

\* C12: each optimize_memory iteration sets the configured mutation_rate
\* to min(0.5, old_rate * 1.1), old_rate being 0.1 when the key is absent,
\* so after any iteration the configured mutation_rate is <= 0.5.
C12_MutationRateCapped ==
  last.op = "optimize_memory" =>
    /\ MutationRate(config)
         = RateAfter(MutationRate(pre.config), last.iterations)
    /\ last.iterations >= 1 =>
         /\ "evolution" \in DOMAIN config
         /\ "mutation_rate" \in DOMAIN config["evolution"]
         /\ config["evolution"]["mutation_rate"] <= MutationRateCap
    /\ last.iterations = 0 => config = pre.config

\* a call that began below the cap and whose iterations brought the rate
\* to the cap, where it stayed
C12_Witness ==
  /\ last.op = "optimize_memory"
  /\ MutationRate(pre.config) < MutationRateCap
  /\ MutationRate(config) = MutationRateCap
  /\ RateAfter(MutationRate(pre.config), last.iterations - 1)
       = MutationRateCap

\* C13: when the estimated footprint is already <= target at the call,
\* optimize_memory runs no generation: its only step is the return, and
\* the generation counter, the configuration (so the mutation_rate), the
\* gene map with every gene's fields and the graph stay as they were.
C13_AlreadyWithinTarget ==
  /\ [](( /\ last.op = "optimize_memory"
          /\ InitialEstimate <= last.target_size )
        => /\ last.iterations = 0
           /\ generation = pre.generation
           /\ config = pre.config
           /\ genes = pre.genes
           /\ nodes = pre.nodes
           /\ edges = pre.edges)
  /\ [][(Busy /\ InitialEstimate <= last.target_size)
          => (last'.op = "optimize_memory" /\ last'.pc = "returned")]_vars

\* the call returned at once on the empty pool with target 0 (footprint
\* equal to the target) and on a configuration without an evolution key
C13_Witness ==
  /\ Optimized
  /\ pre.genes = <<>>
  /\ last.target_size = 0
  /\ last.max_iterations > 0
  /\ last.iterations = 0
  /\ config = EmptyDict

\* C14 as stated: optimize_memory leaves its loop with the footprint still
\* above target and fewer than max_iterations iterations done only when
\* no improvement of the estimate was observed for several (at least the
\* last two) consecutive iterations.
C14_StopsOnlyOnStagnation ==
  (/\ Optimized
   /\ last.current_size > last.target_size
   /\ last.iterations < last.max_iterations)
    => /\ last.iterations >= 2
       /\ last.sizes[Len(last.sizes)] >= last.sizes[Len(last.sizes) - 1]
       /\ last.sizes[Len(last.sizes) - 1] >= last.sizes[Len(last.sizes) - 2]

\* the call left its loop early, above target, right after an iteration
\* that lowered the estimate
C14_Witness ==
  /\ Optimized
  /\ last.current_size > last.target_size
  /\ last.iterations < last.max_iterations
  /\ last.sizes[Len(last.sizes)] < last.sizes[Len(last.sizes) - 1]

\* C15: for two parents a and b of equal dimension (weights in [0, 1]),
\* _crossover(a, b) has strength (a.strength + b.strength) / 2 and a
\* connections map over the union of the parents' keys with
\* connections[k] = max(a.connections.get(k, 0), b.connections.get(k, 0));
\* the call leaves both parents as they were.
C15_CrossoverWeightLaw ==
  (last.op = "_crossover" /\ last.raised = "none" /\ last.writes = 0) =>
    LET a == last.held[last.parents[1]]
        b == last.held[last.parents[2]]
        child == last.held[last.child]
    IN  /\ child.strength = (a.strength + b.strength) \div 2
        /\ DOMAIN child.connections
             = DOMAIN a.connections \cup DOMAIN b.connections
        /\ \A k \in DOMAIN child.connections :
             child.connections[k]
               = Max(Get(a.connections, k, 0), Get(b.connections, k, 0))
        /\ Deep(last.heap, a) = last.before[1]
        /\ Deep(last.heap, b) = last.before[2]

\* two different parents were crossed: one key only the first has, one
\* only the second has, and a common key on which the first weighs more
C15_Witness ==
  /\ last.op = "_crossover"
  /\ last.raised = "none"
  /\ last.writes = 0
  /\ LET a == last.held[last.parents[1]]
         b == last.held[last.parents[2]]
     IN  /\ DOMAIN a.connections \ DOMAIN b.connections # {}
         /\ DOMAIN b.connections \ DOMAIN a.connections # {}
         /\ \E k \in DOMAIN a.connections \cap DOMAIN b.connections :
              a.connections[k] > b.connections[k]
         /\ (a.strength + b.strength) % 2 = 0

\* C16 as stated: gene.evolve(rate) returns a gene with the parent id plus
\* the mutation suffix, 0.95 times the parent's strength and connections
\* and metadata equal to the parent's, copied by value: whatever the
\* caller later changes in the child's connections or metadata, values
\* nested inside metadata included, the parent reads as it did before the
\* call.
C16_EvolveCopiesByValue ==
  last.op = "evolve" =>
    LET parent == last.held[last.parents[1]]
        child == last.held[last.child]
    IN  /\ child.id = parent.id \o "_mut"
        /\ child.strength = Times095(parent.strength)
        /\ last.writes = 0 =>
             /\ child.connections = parent.connections
             /\ Deep(last.heap, child).metadata
                  = Deep(last.heap, parent).metadata
        /\ Deep(last.heap, parent) = last.before[1]

\* after a change of the child the parent's metadata reads differently
\* from what it read before the evolve call
C16_Witness ==
  /\ last.op = "evolve"
  /\ last.writes = 1
  /\ Deep(last.heap, last.held[last.parents[1]]).metadata
       # last.before[1].metadata

\* the queries of the last run_generation call, and those among them the
\* embedder encodes
RunQueries == IF last.queries.none THEN ProbeQueries ELSE last.queries.list

EncodedQueries == SelectSeq(RunQueries, LAMBDA q : ~EncodeRaises(q))

\* the activation of a pre-call gene once every query of the call was
\* processed: the last encoded query's, or the gene's own when none was
ActivationAfterQueries(gene) ==
  IF EncodedQueries = <<>> THEN gene.activation
  ELSE Max(0, Similarity(gene, EncodedQueries[Len(EncodedQueries)])
                - ActivationThreshold)

\* C20: every run_generation(queries) call increments the generation
\* counter by exactly 1 and applies natural_selection exactly once, after
\* all the queries were processed: the weak genes are gone and each
\* survivor is reinforced once, or not, by the activation the last
\* processed query left; a query whose processing raises is counted and
\* the queries after it are still processed.
C20_OneSelectionAfterAllQueries ==
  (last.op = "run_generation") =>
    /\ generation = pre.generation + 1
    /\ last.errors = Len(RunQueries) - Len(EncodedQueries)
    /\ last.raised = "none"
    /\ Keys(genes) = {g.id : g \in {pre.genes[i] : i \in DOMAIN pre.genes}
                               \ {h \in {pre.genes[i] : i \in DOMAIN pre.genes}
                                    : h.strength < WeakStrength}}
    /\ \A i \in DOMAIN pre.genes :
         pre.genes[i].id \in Keys(genes) =>
           LET before == pre.genes[i]
               after == Gene(genes, before.id)
           IN  /\ after.activation = ActivationAfterQueries(before)
               /\ after.strength =
                    IF ActivationAfterQueries(before) > ReinforceActivation
                    THEN Min(StrengthCap, Times11(before.strength))
                    ELSE before.strength

\* a call whose first query raised: a gene that was not active before
\* the call is reinforced by the activation the query after the failing
\* one gave it
C20_Witness ==
  /\ last.op = "run_generation"
  /\ last.errors = 1
  /\ EncodeRaises(RunQueries[1])
  /\ EncodedQueries # <<>>
  /\ \E i \in DOMAIN pre.genes :
       /\ pre.genes[i].id \in Keys(genes)
       /\ pre.genes[i].activation <= ReinforceActivation
       /\ ActivationAfterQueries(pre.genes[i]) > ReinforceActivation
       /\ Gene(genes, pre.genes[i].id).strength > pre.genes[i].strength

\* the positions (from 0) of the candidates of the last search that have
\* the compressor's input length, and the score of the candidate at one
ValidPositions ==
  {i \in 0..(Len(last.vectors) - 1) :
     Len(last.vectors[i + 1]) = memory.embedding_dim}

ScoreOf(i) ==
  Dot(compress(memory, last.query).ret,
      compress(memory, last.vectors[i + 1]).ret)

\* C17: similarity_search with a query of the expected length does not
\* fail; it returns indices and scores of equal length, the indices are
\* distinct positions of candidates of matching length, scores[j] is the
\* score of the candidate at indices[j], the scores do not increase, and
\* with no valid candidate both sequences are empty.
C17_SearchResultShape ==
  (last.op = "similarity_search" /\ Len(last.query) = memory.embedding_dim)
    => /\ last.raised = "none"
       /\ Len(last.indices) = Len(last.scores)
       /\ \A j \in DOMAIN last.indices :
            /\ last.indices[j] \in ValidPositions
            /\ last.scores[j] = ScoreOf(last.indices[j])
       /\ \A j, k \in DOMAIN last.indices :
            /\ (j # k) => last.indices[j] # last.indices[k]
            /\ (j < k) => last.scores[j] >= last.scores[k]
       /\ (ValidPositions = {})
            => (last.indices = <<>> /\ last.scores = <<>>)

\* a search over a list whose first candidate has the wrong length: two
\* candidates after it come back, the later one first, with a higher score
C17_Witness ==
  /\ last.op = "similarity_search"
  /\ last.raised = "none"
  /\ Len(last.vectors) > 0
  /\ Len(last.vectors[1]) # memory.embedding_dim
  /\ Len(last.indices) = 2
  /\ last.indices[1] > last.indices[2]
  /\ last.scores[1] > last.scores[2]

\* C18 as stated: for every top_k >= 0 similarity_search returns exactly
\* min(top_k, number of valid candidates) results, and no valid candidate
\* left out scores strictly higher than a returned one.
C18_ExactlyTopK ==
  (last.op = "similarity_search" /\ last.raised = "none" /\ last.top_k >= 0)
    => /\ Len(last.indices) = Min(last.top_k, Cardinality(ValidPositions))
       /\ \A i \in ValidPositions :
            (\A j \in DOMAIN last.indices : last.indices[j] # i)
              => \A j \in DOMAIN last.indices : ScoreOf(i) <= last.scores[j]

\* a search with top_k = 0 over several valid candidates returned them all
C18_Witness ==
  /\ last.op = "similarity_search"
  /\ last.raised = "none"
  /\ last.top_k = 0
  /\ Cardinality(ValidPositions) > 1
  /\ Len(last.indices) = Cardinality(ValidPositions)

\* C19: compress raises the dimension-mismatch ValueError exactly when
\* the input length differs from embedding_dim, decompress exactly when
\* it differs from compression_size, and no call on the compressor,
\* failing or not, changes its basis (or its sizes).
C19_MismatchRaisesBasisFixed ==
  /\ [](/\ (last.op = "compress")
             => ((last.raised = "ValueError")
                   <=> (Len(last.vector) # memory.embedding_dim))
        /\ (last.op = "decompress")
             => ((last.raised = "ValueError")
                   <=> (Len(last.compressed) # memory.compression_size)))
  /\ [][memory' = memory]_vars

\* compress was called with a vector shorter than embedding_dim and
\* raised, on a compressor whose basis is one of those it was built with
C19_Witness ==
  /\ last.op = "compress"
  /\ last.raised = "ValueError"
  /\ Len(last.vector) < memory.embedding_dim
  /\ memory.basis \in Bases(memory.compression_size, memory.embedding_dim)

\* C22: a successful add_gene(g) stores g under g.id, adds the node g.id
\* and, for each entry (t, w) of g.connections, the edge g.id -> t with
\* weight w exactly when t is a key of the gene map at that moment; an
\* entry with an absent target adds no edge and no node and stays in
\* g.connections; the call adds no edge that does not start at g.id, so
\* an entry of an earlier gene is not turned into an edge when its target
\* arrives.
C22_EdgesOnlyToPresentTargets ==
  (last.op = "add_gene" /\ last.raised = "none") =>
    LET g == last.gene
    IN  /\ g.id \in Keys(genes)
        /\ Gene(genes, g.id) = g
        /\ Keys(genes) = Keys(pre.genes) \cup {g.id}
        /\ nodes = pre.nodes \cup {g.id}
        /\ \A t \in DOMAIN g.connections :
             IF t \in Keys(genes)
             THEN [src |-> g.id, dst |-> t, weight |-> g.connections[t]]
                    \in edges
             ELSE \A e \in edges : ~(e.src = g.id /\ e.dst = t)
        /\ \A e \in edges \ pre.edges :
             /\ e.src = g.id
             /\ e.dst \in DOMAIN g.connections
             /\ e.weight = g.connections[e.dst]
        /\ \A e \in pre.edges \ edges :
             \E f \in edges \ pre.edges : f.src = e.src /\ f.dst = e.dst

\* a gene was added with one connection to a stored gene and one to an
\* absent id, into a pool where a stored gene names the new gene's id in
\* its connections without having an edge to it
C22_Witness ==
  /\ last.op = "add_gene"
  /\ last.raised = "none"
  /\ \E t \in DOMAIN last.gene.connections :
       t \in Keys(genes) /\ t # last.gene.id
  /\ \E t \in DOMAIN last.gene.connections : t \notin Keys(genes)
  /\ \E i \in DOMAIN pre.genes :
       /\ pre.genes[i].id # last.gene.id
       /\ last.gene.id \notin Keys(pre.genes)
       /\ last.gene.id \in DOMAIN pre.genes[i].connections
       /\ \A e \in edges :
            ~(e.src = pre.genes[i].id /\ e.dst = last.gene.id)

\* C23: in every reachable state of a pool driven by add_gene,
\* natural_selection and the activation and evolution calls, every graph
\* node is a key of the gene map and both ends of every graph edge are
\* keys of the gene map.
C23_GraphWithinGeneMap ==
  /\ nodes \subseteq Keys(genes)
  /\ \A e \in edges : e.src \in Keys(genes) /\ e.dst \in Keys(genes)

\* natural_selection removed a gene that had edges, and genes and edges
\* remain
C23_Witness ==
  /\ last.op = "natural_selection"
  /\ \E e \in pre.edges : e.src \in Removed \/ e.dst \in Removed
  /\ genes # <<>>
  /\ edges # {}

\* C26 as stated: in every state reachable by add_gene (re-adding a stored
\* id included) and natural_selection, every graph edge a -> b of weight w
\* has b as a key of the connections of the gene stored under a, with
\* weight w.
C26_GraphDerivedFromConnections ==
  \A e \in edges :
    /\ e.src \in Keys(genes)
    /\ e.dst \in DOMAIN Gene(genes, e.src).connections
    /\ Gene(genes, e.src).connections[e.dst] = e.weight

\* a stored id was added again with other connections, and an edge of the
\* replaced gene is still in the graph
C26_Witness ==
  /\ last.op = "add_gene"
  /\ last.raised = "none"
  /\ last.gene.id \in Keys(pre.genes)
  /\ \E e \in edges :
       /\ e.src = last.gene.id
       /\ e \in pre.edges
       /\ e.dst \notin DOMAIN last.gene.connections

C24_EstimateSurvivesFailedGene ==
  /\ [](last.op = "optimize_memory" =>
          LET fine == SelectSeq(genes, Serializable)
          IN  /\ last.raised = "none"
              /\ last.current_size
                   = FailedGeneSize * (Len(genes) - Len(fine))
                       + EstimateUpTo(fine, Len(fine))
              /\ last.pc = "returned" =>
                   \/ last.current_size <= last.target_size
                   \/ last.iterations >= last.max_iterations
                   \/ last.iterations > StagnationIterations)
  /\ [][(Busy /\ last.current_size > last.target_size
              /\ last.iterations < last.max_iterations)
          => (/\ last'.op = "optimize_memory"
              /\ last'.iterations = last.iterations + 1
              /\ last'.raised = "none")]_vars

\* an optimize_memory call on a pool with a gene that cannot be
\* serialized and one that can ran several iterations and returned
C24_Witness ==
  /\ last.op = "optimize_memory"
  /\ last.pc = "returned"
  /\ last.iterations > StagnationIterations
  /\ \E i, j \in DOMAIN genes :
       ~Serializable(genes[i]) /\ Serializable(genes[j])
  /\ last.current_size > FailedGeneSize

C27_StrengthNeverLowered ==
  [][/\ Keys(genes') \subseteq Keys(genes)
     /\ \A id \in Keys(genes') :
          Gene(genes', id).strength >= Gene(genes, id).strength
     /\ generation >= 1 => Keys(genes') = Keys(genes)]_vars

\* the first generation of an optimize_memory call removed a gene, a later
\* one ran on the genes that were left and reinforced one of them
C27_Witness ==
  /\ last.op = "optimize_memory"
  /\ last.iterations >= 2
  /\ Len(pre.genes) > Len(genes)
  /\ \E id \in Keys(genes) :
       Gene(genes, id).strength > Gene(pre.genes, id).strength

\* the places of the walk over a list of n genes, in walk order: place
\* 2i is the mutant of g_i, place 2i + 1 the child of (g_i, g_(i+1)); the
\* last gene has no child place
WalkPlaces(n) == 0..(2 * n - 2)

\* gene is what the walk over list creates at the place
IsOffspringAt(gene, list, place) ==
  IF place % 2 = 0
  THEN LET parent == list[(place \div 2) + 1]
       IN  /\ gene.id = parent.id \o "_mut"
           /\ gene.strength = Times095(parent.strength)
           /\ gene.connections = parent.connections
  ELSE LET gene1 == list[(place \div 2) + 1]
           gene2 == list[(place \div 2) + 2]
       IN  /\ gene.id = gene1.id \o "_" \o gene2.id \o "_child"
           /\ gene.strength = (gene1.strength + gene2.strength) \div 2

\* C25: one evolve_activation step over g_0..g_(n-1) returns only new
\* genes, each the mutant of some g_i or the crossover child of an
\* adjacent pair (g_i, g_(i+1)), in walk order (the mutant of g_i before
\* the child of (g_i, g_(i+1)), everything of position i before
\* everything of position i + 1, each place at most once); the last
\* position has no child; no input gene is in the output; an empty input
\* gives an empty list and a single gene at most one gene.
C25_OnlyOffspringInWalkOrder ==
  (last.op = "evolve_activation" /\ last.raised = "none") =>
    /\ \E place \in [DOMAIN last.ret -> WalkPlaces(Len(last.list))] :
         /\ \A j, k \in DOMAIN last.ret : j < k => place[j] < place[k]
         /\ \A j \in DOMAIN last.ret :
              IsOffspringAt(last.ret[j], last.list, place[j])
    /\ \A j \in DOMAIN last.ret :
         /\ \A i \in DOMAIN last.list : last.ret[j] # last.list[i]
         /\ last.ret[j].id \notin Keys(genes)
    /\ Len(last.list) = 0 => last.ret = <<>>
    /\ Len(last.list) = 1 => Len(last.ret) <= 1

\* a step over two genes returned the mutant of the first, the child of
\* the pair and the mutant of the second, in this order
C25_Witness ==
  /\ last.op = "evolve_activation"
  /\ last.raised = "none"
  /\ Len(last.list) = 2
  /\ Len(last.ret) = 3
  /\ last.ret[1].id = last.list[1].id \o "_mut"
  /\ last.ret[3].id = last.list[2].id \o "_mut"

\* whether the closing selection pass of the last call raised the gene
\* (a gene at the cap cannot show it)
Reinforced(before) ==
  /\ before.id \in Keys(genes)
  /\ Gene(genes, before.id).strength
       = Min(StrengthCap, Times11(before.strength))

Untouched(before) ==
  /\ before.id \in Keys(genes)
  /\ Gene(genes, before.id).strength = before.strength

C30_InterleavedPassesConsistent ==
  \A t \in DOMAIN threads :
    (threads[t].pc = "done" /\ threads[t].raised = "none") =>
      IF threads[t].op = "activate_genes"
      THEN /\ \A j \in DOMAIN threads[t].ret : threads[t].stored[j] > 0
           /\ \A j, k \in DOMAIN threads[t].ret :
                j < k => threads[t].stored[j] >= threads[t].stored[k]
      ELSE \A j \in DOMAIN genes :
             genes[j].id \in threads[t].reinforced
               => threads[t].stored[j] > ReinforceActivation

\* an activation pass returned a gene that the other activation pass had
\* set to activation 0 in between
C30_Witness ==
  /\ threads # NoThreads
  /\ threads[1].op = "activate_genes"
  /\ threads[2].op = "activate_genes"
  /\ \E t \in DOMAIN threads :
       /\ threads[t].pc = "done"
       /\ threads[t].raised = "none"
       /\ \E j \in DOMAIN threads[t].ret : threads[t].stored[j] = 0

====
